---- MODULE Spec2Model ----
(***************************************************************************)
(* MTA train display: feed-to-arrivals mapping (mta_client.py), direction  *)
(* classification (mta_client.py, debug_southbound.py) and the marquee     *)
(* animation of the frame renderer (display_manager.py).                   *)
(***************************************************************************)
EXTENDS Integers, Sequences, FiniteSets, TLC

VARIABLES
    \* ---- DisplayManager (display_manager.py)
    frame_count,    \* self.frame_count: global frame counter for animation
    text_width,     \* measured width of the destination drawn in this frame
    offset,         \* value returned by _calculate_slide_offset for that text
    dest_x,         \* x position at which draw_destination_text_only draws
    \* ---- MTAClient.load_trips_file (mta_client.py)
    trips_map,      \* self.trips_map: trip_id -> destination, direction, route_id
    row,            \* the trips.txt row read last (loop variable)
    rows_read,      \* number of rows read from trips.txt
    \* ---- diagnose_southbound (debug_southbound.py)
    trip,               \* the feed trip analysed last (loop variable)
    detected_direction, \* its classification
    detection_method,   \* how it was classified
    direction_analysis, \* counters per direction and method
    trips_analysed,     \* number of feed entities looked at
    \* ---- MTAClient.parse_feed (mta_client.py)
    route_ids,      \* Config.ROUTE_IDS, passed as route_ids: None or a list
    pc,             \* position in parse_feed
    entities_read,  \* number of feed entities iterated over so far
    entity,         \* the feed entity of the current iteration
    stop_ids_seen,  \* stop ids of the current trip's stop events read so far
    stop_time,      \* the stop event of the current inner iteration
    found,          \* local flag `found`
    train,          \* the Train created for the current trip, if any
    trains,         \* local dict `trains`, returned at the end
    extracted,      \* the lists as the loop built them, before the sort
    \* ---- the countdown cell of a row (mta_client.py, display_manager.py)
    now,            \* time.time(), in seconds
    countdown_train,\* the Train of the row
    current_time,   \* local current_time of get_minutes_to_arrival
    minutes,        \* local minutes of render_frame
    time_text,      \* local time_text of render_frame
    time_font,      \* key of the font chosen for time_text
    \* ---- DisplayManager.render_frame (display_manager.py)
    rpc,            \* position in render_frame
    row_idx,        \* idx of the loop over trains[:2]
    frame_direction,\* argument direction
    frame_trains,   \* argument trains
    draw_log,       \* the draw calls made on the image of this frame, in order
    render_fault,   \* where an exception was caught during this frame
    sink_last,      \* the last operation the pixel sink received
    sink_image,     \* the draw calls of the image the sink received last
    \* ---- MTATrainDisplay (main.py)
    running,        \* self.running
    matrix,         \* DisplayManager.matrix is set (FALSE: test mode)
    main_pc,        \* position of the main thread in run()
    update_pc,      \* position of the update thread in update_loop()
    fetch_pc,       \* per thread: position in fetch_train_data
    feed,           \* per thread: local feed, the result of get_feed
    train_data,     \* self.train_data
    last_update,    \* self.last_update
    current_frame,  \* self.current_frame
    snapshot,       \* the mapping display_loop read self.train_data as
    last_good,      \* history: the result of the last poll whose fetch succeeded
    last_good_time, \* history: when that poll set last_update
    \* ---- DisplayManager.render_weather (display_manager.py)
    cond_text_width,\* measured width of the condition text (local text_width)
    scroll_offset,  \* local scroll_offset of render_weather
    \* ---- MTAClient.parse_feed called without a stop id (mta_client.py)
    call_args,      \* arguments feed and stop_id of the call
    call_stop_id,   \* local stop_id: None until _discover_stops returned
    call_trains,    \* the mapping the call returned
    \* ---- MTATrainDisplay.display_loop, timed (main.py)
    wall_clock,     \* time.time(), in frame periods of 1 / DISPLAY_FPS seconds
    last_frame_switch \* local last_frame_switch of display_loop

mvars == <<frame_count, text_width, offset, dest_x>>
lvars == <<trips_map, row, rows_read>>
dvars == <<trip, detected_direction, detection_method, direction_analysis, trips_analysed>>

fvars == <<route_ids, pc, entities_read, entity, stop_ids_seen, stop_time, found,
           train, trains, extracted>>

cvars == <<now, countdown_train, current_time, minutes, time_text, time_font>>

\* The variables that aggregation, direction resolution and the marquee
\* leave alone.
rvars == <<rpc, row_idx, frame_direction, frame_trains, draw_log, render_fault,
           sink_last, sink_image>>

avars == <<running, matrix, main_pc, update_pc, fetch_pc, feed, train_data,
           last_update, current_frame, snapshot, last_good, last_good_time>>

\* render_weather, parse_feed with stop discovery, the timed display loop
yvars == <<cond_text_width, scroll_offset, call_args, call_stop_id, call_trains,
           wall_clock, last_frame_switch>>

xvars == <<cvars, rvars, avars, yvars>>

vars == <<frame_count, text_width, offset, dest_x,
          trips_map, row, rows_read,
          trip, detected_direction, detection_method, direction_analysis,
          trips_analysed,
          route_ids, pc, entities_read, entity, stop_ids_seen, stop_time, found,
          train, trains, extracted,
          now, countdown_train, current_time, minutes, time_text, time_font,
          rpc, row_idx, frame_direction, frame_trains, draw_log, render_fault,
          sink_last, sink_image,
          running, matrix, main_pc, update_pc, fetch_pc, feed, train_data,
          last_update, current_frame, snapshot, last_good, last_good_time,
          cond_text_width, scroll_offset, call_args, call_stop_id, call_trains,
          wall_clock, last_frame_switch>>

(***************************************************************************)
(* Bounds of the model                                                     *)
(***************************************************************************)
MaxTextWidth == 110   \* widest measured destination text, in pixels
MaxFrames    == 250   \* frames rendered in one run (more than two cycles)
MaxRows      == 3     \* rows read from trips.txt
MaxDiagTrips == 3     \* feed entities analysed by diagnose_southbound
MaxFeed      == 3     \* entities of a feed (Spec)
MaxStops     == 2     \* stop events read per trip
MaxTrips     == 6     \* entities of a feed (SpecSort)
MaxTime      == 2     \* latest arrival time (SpecSort)

(***************************************************************************)
(* display_manager.py: layout and animation constants                      *)
(***************************************************************************)
COL_WIDTH_BADGE == 12     \* COL_WIDTHS[0]
DEST_MAX_WIDTH  == 28
SLIDE_MARGIN    == 5      \* "5px margin"
pause_frames    == 30     \* SLIDE_CONFIG['pause_frames']
cycle_duration  == 120    \* SLIDE_CONFIG['cycle_duration']

\* The halving left out: one slide takes all the frames that are not pauses.
slide_frames_not_halved == cycle_duration - 2 * pause_frames

\* slide_frames = (cycle - 2 * pause) // 2
slide_frames == (cycle_duration - 2 * pause_frames) \div 2

\* slide_distance = text_width - max_width + 5
slide_distance(tw, max_width) == tw - max_width + SLIDE_MARGIN

\* The (slide_distance, progress) pairs, within the model's widths, at which
\* the double-precision product (progress / slide_frames) * slide_distance
\* lands just below the exact integer quotient, so that int() truncates to
\* one less than progress * slide_distance / slide_frames.
FloatBelow == { <<75, 22>>, <<90, 21>> }

\* The slide-forward ramp run backwards: it starts at slide_distance and
\* comes down as progress grows.
RampUpReversed(progress, sd) ==
    sd - (progress * sd) \div slide_frames

\* int((progress / slide_frames) * slide_distance)
RampUp(progress, sd) ==
    LET exact == (progress * sd) \div slide_frames
    IN  IF <<sd, progress>> \in FloatBelow THEN exact - 1 ELSE exact

\* Slide-left progress measured from the start of the pause at the end
\* instead of from its end: the ramp runs below zero.
RampDownFromPauseStart(progress, sd) ==
    (sd * slide_frames - (progress + pause_frames) * sd) \div slide_frames

\* int(slide_distance - (progress / slide_frames) * slide_distance)
\* (exact for every slide_distance of the model: the subtraction is
\* evaluated in floating point before the truncation)
RampDown(progress, sd) ==
    (sd * slide_frames - progress * sd) \div slide_frames

\* The counter advanced by two per frame.
next_frame_count_twice(n) == n + 2

\* self.frame_count += 1, the first statement of render_frame and of
\* render_weather
next_frame_count(n) == n + 1

\* The fit test written with < instead of <=: a text exactly as wide as the
\* column is animated.
calculate_slide_offset_strict_fit(tw, max_width, fc) ==
    IF tw < max_width THEN 0
    ELSE
        LET sd    == slide_distance(tw, max_width)
            frame == fc % cycle_duration
        IN  IF frame < pause_frames THEN 0
            ELSE IF frame < pause_frames + slide_frames
                 THEN RampUp(frame - pause_frames, sd)
            ELSE IF frame < pause_frames + slide_frames + pause_frames
                 THEN sd
            ELSE RampDown(frame - (pause_frames + slide_frames + pause_frames), sd)

\* DisplayManager._calculate_slide_offset(text, max_width), with the text
\* given by its measured width and self.frame_count passed explicitly.
calculate_slide_offset(tw, max_width, fc) ==
    IF tw <= max_width THEN 0
    ELSE
        LET sd    == slide_distance(tw, max_width)
            frame == fc % cycle_duration
        IN  IF frame < pause_frames THEN 0
            ELSE IF frame < pause_frames + slide_frames
                 THEN RampUp(frame - pause_frames, sd)
            ELSE IF frame < pause_frames + slide_frames + pause_frames
                 THEN sd
            ELSE RampDown(frame - (pause_frames + slide_frames + pause_frames), sd)

(***************************************************************************)
(* Text: Python strings as sequences of characters                         *)
(***************************************************************************)
UpperCase == <<"A", "B", "C", "D", "E", "F", "G", "H", "I", "J", "K", "L", "M",
               "N", "O", "P", "Q", "R", "S", "T", "U", "V", "W", "X", "Y", "Z">>
LowerCase == <<"a", "b", "c", "d", "e", "f", "g", "h", "i", "j", "k", "l", "m",
               "n", "o", "p", "q", "r", "s", "t", "u", "v", "w", "x", "y", "z">>

\* str.lower()
lower(str) ==
    [i \in DOMAIN str |->
        IF \E k \in DOMAIN UpperCase : UpperCase[k] = str[i]
        THEN LowerCase[CHOOSE k \in DOMAIN UpperCase : UpperCase[k] = str[i]]
        ELSE str[i]]

\* word in text (substring test)
contains(text, word) ==
    \E i \in 1..(Len(text) - Len(word) + 1) :
        SubSeq(text, i, i + Len(word) - 1) = word

\* text.startswith(prefix)
startswith(text, prefix) ==
    /\ Len(prefix) <= Len(text)
    /\ SubSeq(text, 1, Len(prefix)) = prefix

HS_WHITEHALL == <<"W", "h", "i", "t", "e", "h", "a", "l", "l", " ", "S", "t">>
HS_BAY_RIDGE == <<"B", "a", "y", " ", "R", "i", "d", "g", "e", "-", "9", "5", " ", "S", "t">>
HS_FOREST == <<"F", "o", "r", "e", "s", "t", " ", "H", "i", "l", "l", "s">>
HS_DOWNTOWN_BROOKLYN == <<"D", "o", "w", "n", "t", "o", "w", "n", " ", "B", "r", "o", "o", "k", "l", "y", "n">>
HS_ASTORIA == <<"A", "s", "t", "o", "r", "i", "a">>
HS_EMPTY == << >>
\* default of row.get('trip_headsign', 'Unknown')
HS_UNKNOWN == <<"U", "n", "k", "n", "o", "w", "n">>
\* "N/A": the headsign of a feed trip without a trip_headsign attribute
HS_NA == <<"N", "/", "A">>

\* The headsigns the model's trips carry: one per combination of keyword
\* sets matched (northbound only, southbound only, both, none), and empty.
Headsigns == {HS_WHITEHALL, HS_BAY_RIDGE, HS_FOREST, HS_DOWNTOWN_BROOKLYN,
              HS_ASTORIA, HS_EMPTY}

\* ['whitehall', 'downtown', 'forest', 'cortlandt']
NorthKeywords == { <<"w", "h", "i", "t", "e", "h", "a", "l", "l">>,
                   <<"d", "o", "w", "n", "t", "o", "w", "n">>,
                   <<"f", "o", "r", "e", "s", "t">>,
                   <<"c", "o", "r", "t", "l", "a", "n", "d", "t">> }
\* ['bay ridge', 'brooklyn', '95 st']
SouthKeywords == { <<"b", "a", "y", " ", "r", "i", "d", "g", "e">>,
                   <<"b", "r", "o", "o", "k", "l", "y", "n">>,
                   <<"9", "5", " ", "s", "t">> }

\* any(word in headsign_lower for word in keywords)
any_word_in(keywords, headsign_lower) ==
    \E word \in keywords : contains(headsign_lower, word)

\* Route ids and trip ids of the model. The trip ids are opaque: none ends
\* in a bound marker.
Routes  == {"R", "N"}
TripIds == {"t1", "t2"}

(***************************************************************************)
(* mta_client.py: MTAClient.load_trips_file                                *)
(***************************************************************************)
\* Python None (a csv.DictReader row shorter than the header has None for
\* the missing cells)
None == "None"

\* row.get(key, default)
row_get(r, key, default) == IF key \in DOMAIN r THEN r[key] ELSE default

\* trip_id of a row, with the default None of row.get('trip_id')
row_trip_id(r) == row_get(r, "trip_id", None)

\* `if trip_id:` -- neither None nor the empty string
truthy_id(id) == id # None /\ id # ""

\* The mapping reversed: '0' read as southbound.
direction_of_id_reversed(direction_id) ==
    IF direction_id = "0" THEN "southbound" ELSE "northbound"

\* direction = "northbound" if direction_id == '0' else "southbound"
direction_of_id(direction_id) ==
    IF direction_id = "0" THEN "northbound" ELSE "southbound"

\* The body of the loop over the rows of trips.txt: the map after `r`.
load_row(map, r) ==
    LET trip_id       == row_trip_id(r)
        route_id      == row_get(r, "route_id", None)
        trip_headsign == row_get(r, "trip_headsign", HS_UNKNOWN)
        direction_id  == row_get(r, "direction_id", "0")
        entry == [destination |-> trip_headsign,
                  direction   |-> direction_of_id(direction_id),
                  route_id    |-> route_id]
    IN  IF truthy_id(trip_id)
        THEN [id \in DOMAIN map \cup {trip_id} |->
                 IF id = trip_id THEN entry ELSE map[id]]
        ELSE map

\* The direction_id cells of trips.txt: '0', '1', another number, empty, or
\* None (short row); the column may also be missing altogether.
DirectionCells == {"0", "1", "2", "", None}

\* The trip_headsign cells of the model's trips.txt: one without keyword,
\* one with a northbound and one with a southbound keyword.
RowHeadsigns == {HS_ASTORIA, HS_WHITEHALL, HS_BAY_RIDGE}

\* The rows csv.DictReader can yield, with or without a direction_id column
\* and with or without a trip_headsign column.
TripsRows ==
    LET ids == TripIds \cup {""}
    IN       {[trip_id |-> t, route_id |-> r, trip_headsign |-> h, direction_id |-> d] :
                 t \in ids, r \in {"R"}, h \in RowHeadsigns, d \in DirectionCells}
        \cup {[trip_id |-> t, route_id |-> r, trip_headsign |-> h] :
                 t \in ids, r \in {"R"}, h \in RowHeadsigns}
        \cup {[trip_id |-> t, route_id |-> r, direction_id |-> d] :
                 t \in ids, r \in {"R"}, d \in DirectionCells}

\* MTAClient.__init__: self.trips_map = {} before load_trips_file runs.
LoadInit ==
    /\ trips_map = << >>
    /\ row = [trip_id |-> ""]
    /\ rows_read = 0

\* One iteration of `for row in reader`.
LoadTripsRow ==
    /\ rows_read < MaxRows
    /\ \E r \in TripsRows :
          /\ row' = r
          /\ trips_map' = load_row(trips_map, r)
    /\ rows_read' = rows_read + 1
    /\ UNCHANGED <<mvars, dvars, fvars, xvars>>

(***************************************************************************)
(* debug_southbound.py: diagnose_southbound, direction classification      *)
(***************************************************************************)
\* config.ROUTE_ID of the configuration the script was written for
ROUTE_ID == "R"

\* trip.trip_headsign if hasattr(trip, 'trip_headsign') else "N/A"
headsign_of(t) == IF "trip_headsign" \in DOMAIN t THEN t.trip_headsign ELSE HS_NA

\* direction_id is not None (hasattr(trip, 'direction_id'))
has_direction_id(t) == "direction_id" \in DOMAIN t

\* The headsign compared without lower-casing it.
classify_case_sensitive(t) ==
    LET trip_headsign == headsign_of(t)
        by_id == IF has_direction_id(t) /\ t.direction_id = 0
                    THEN <<"northbound", "direction_id=0">>
                 ELSE IF has_direction_id(t) /\ t.direction_id = 1
                    THEN <<"southbound", "direction_id=1">>
                 ELSE <<None, None>>
    IN  IF by_id[1] # None THEN by_id
        ELSE IF trip_headsign # << >> /\ any_word_in(NorthKeywords, trip_headsign)
            THEN <<"northbound", "headsign">>
        ELSE IF trip_headsign # << >> /\ any_word_in(SouthKeywords, trip_headsign)
            THEN <<"southbound", "headsign">>
        ELSE <<"unknown", "unknown">>

\* "Manually classify": <<detected_direction, detection_method>> of a trip.
classify(t) ==
    LET trip_headsign == headsign_of(t)
        by_id == IF has_direction_id(t) /\ t.direction_id = 0
                    THEN <<"northbound", "direction_id=0">>
                 ELSE IF has_direction_id(t) /\ t.direction_id = 1
                    THEN <<"southbound", "direction_id=1">>
                 ELSE <<None, None>>
    IN  IF by_id[1] # None THEN by_id
        ELSE IF trip_headsign # << >> /\ any_word_in(NorthKeywords, lower(trip_headsign))
            THEN <<"northbound", "headsign">>
        ELSE IF trip_headsign # << >> /\ any_word_in(SouthKeywords, lower(trip_headsign))
            THEN <<"southbound", "headsign">>
        ELSE <<"unknown", "unknown">>

\* The counter of direction_analysis a detection method is counted under.
method_counter(method) ==
    IF method = "direction_id=0" THEN "direction_id_0"
    ELSE IF method = "direction_id=1" THEN "direction_id_1"
    ELSE IF method = "headsign" THEN "headsign_based"
    ELSE "unknown"

\* The feed trips the script may meet: direction_id 0, 1, another value or
\* no such attribute; a headsign of the model or no such attribute.
DiagTrips ==
         {[route_id |-> r, direction_id |-> d, trip_headsign |-> h] :
             r \in Routes, d \in 0..2, h \in Headsigns}
    \cup {[route_id |-> r, trip_headsign |-> h] : r \in Routes, h \in Headsigns}
    \cup {[route_id |-> r, direction_id |-> d] : r \in Routes, d \in 0..2}
    \cup {[route_id |-> r] : r \in Routes}

\* classify(t) of every trip the script may meet (evaluated once).
classification == [t \in DiagTrips |-> classify(t)]

DiagCounters == {"direction_id_0", "direction_id_1", "headsign_based", "unknown"}

DiagInit ==
    /\ trip = [route_id |-> "N"]
    /\ detected_direction = None
    /\ detection_method = None
    /\ direction_analysis =
          [d \in {"northbound", "southbound"} |-> [c \in DiagCounters |-> 0]]
    /\ trips_analysed = 0

\* One iteration of `for entity in feed.entity` for a trip of another
\* route: `continue`.
DiagnoseSkip ==
    /\ trips_analysed < MaxDiagTrips
    /\ \E t \in DiagTrips :
          /\ t.route_id # ROUTE_ID
          /\ trip' = t
    /\ trips_analysed' = trips_analysed + 1
    /\ UNCHANGED <<detected_direction, detection_method, direction_analysis>>
    /\ UNCHANGED <<mvars, lvars, fvars, xvars>>

\* One iteration for a trip of the analysed route: classify and count.
DiagnoseTrip ==
    /\ trips_analysed < MaxDiagTrips
    /\ \E t \in DiagTrips :
          /\ t.route_id = ROUTE_ID
          /\ trip' = t
          /\ LET detected == classification[t]
             IN  /\ detected_direction' = detected[1]
                 /\ detection_method' = detected[2]
                 /\ direction_analysis' =
                       IF detected[1] \in DOMAIN direction_analysis
                       THEN [direction_analysis EXCEPT
                               ![detected[1]][method_counter(detected[2])] = @ + 1]
                       ELSE direction_analysis
    /\ trips_analysed' = trips_analysed + 1
    /\ UNCHANGED <<mvars, lvars, fvars, xvars>>

(***************************************************************************)
(* mta_client.py: MTAClient.parse_feed                                     *)
(***************************************************************************)
\* Config.STOP_ID = "R35"
STOP_ID == <<"R", "3", "5">>

\* trains[direction][:5]
TOP_N == 5

\* The static trips.txt of the model: two northbound trips with different
\* destinations and one southbound trip.
TripsFile ==
    << [trip_id |-> "t1", route_id |-> "R", trip_headsign |-> HS_WHITEHALL, direction_id |-> "0"],
       [trip_id |-> "t2", route_id |-> "R", trip_headsign |-> HS_BAY_RIDGE, direction_id |-> "1"],
       [trip_id |-> "t3", route_id |-> "N", trip_headsign |-> HS_ASTORIA,   direction_id |-> "0"] >>

\* load_trips_file over a whole file: the loop body applied to every row.
RECURSIVE load_rows(_, _)
load_rows(map, rows) ==
    IF rows = << >> THEN map ELSE load_rows(load_row(map, Head(rows)), Tail(rows))

load_trips_file(rows) == load_rows(<< >>, rows)

NoTripInfo == [destination |-> << >>, direction |-> "none"]

\* The lookup with a default in place of the skip: a trip that is not in
\* trips.txt is taken as a northbound trip of unknown destination.
trips_map_lookup_default(map, trip_id) ==
    IF trip_id \in DOMAIN map THEN <<TRUE, map[trip_id]>>
    ELSE <<TRUE, [destination |-> HS_UNKNOWN, direction |-> "northbound"]>>

\* `if trip_id not in self.trips_map: continue` and
\* `trip_info = self.trips_map[trip_id]`: whether the trip is in the table,
\* and its entry.
trips_map_lookup(map, trip_id) ==
    IF trip_id \in DOMAIN map THEN <<TRUE, map[trip_id]>>
    ELSE <<FALSE, NoTripInfo>>

\* entity.HasField("trip_update")
has_trip_update(e) == "trip_id" \in DOMAIN e

\* The filter written with the truth test of _discover_stops
\* (`if route_ids and ...`): an empty list lets every route through.
route_filtered_out_truthy(rids, route_id) ==
    rids # None /\ rids # << >> /\ ~(\E k \in DOMAIN rids : rids[k] = route_id)

\* The route filter: `if route_ids is not None: if route_id not in route_ids`
route_filtered_out(rids, route_id) ==
    rids # None /\ ~(\E k \in DOMAIN rids : rids[k] = route_id)

\* The chain of tests that sets is_target for a stop event.
is_target(current_stop_id, stop_id, direction) ==
    \/ current_stop_id = stop_id
    \/ (stop_id \o <<"N">>) = current_stop_id /\ direction = "northbound"
    \/ (stop_id \o <<"S">>) = current_stop_id /\ direction = "southbound"
    \/ startswith(current_stop_id, stop_id)

\* stop_time.HasField("arrival") / HasField("departure")
has_field(st, name) == name \in DOMAIN st

\* The two fields read in the other order: the departure when present, else
\* the arrival.
arrival_time_of_departure_first(st) ==
    IF "departure" \in DOMAIN st THEN <<TRUE, st.departure>>
    ELSE IF "arrival" \in DOMAIN st THEN <<TRUE, st.arrival>>
    ELSE <<FALSE, 0>>

\* `arrival_time`: the arrival when present, else the departure; the pair's
\* first component tells whether either is present (arrival_time not None).
arrival_time_of(st) ==
    IF has_field(st, "arrival") THEN <<TRUE, st.arrival>>
    ELSE IF has_field(st, "departure") THEN <<TRUE, st.departure>>
    ELSE <<FALSE, 0>>

\* `if arrival_time:` -- present and not zero
arrival_time_truthy(at) == at[1] /\ at[2] # 0

\* Train(route_id, destination, arrival_time, direction)
Train(route_id, destination, arrival_time, direction) ==
    [route_id |-> route_id, destination |-> destination,
     arrival_time |-> arrival_time, direction |-> direction]

\* The list with t inserted before the elements that arrive at the same
\* time: equal arrival times end up in reverse feed order.
insert_before_equal(sorted, t) ==
    LET smaller == SelectSeq(sorted, LAMBDA u : u.arrival_time < t.arrival_time)
        rest    == SelectSeq(sorted, LAMBDA u : u.arrival_time >= t.arrival_time)
    IN  smaller \o <<t>> \o rest

\* list.sort(key=lambda t: t.arrival_time) is a stable sort: an insertion
\* sort that puts each element after those not later than it.
insert_by_arrival(sorted, t) ==
    LET not_later == SelectSeq(sorted, LAMBDA u : u.arrival_time <= t.arrival_time)
        later     == SelectSeq(sorted, LAMBDA u : u.arrival_time > t.arrival_time)
    IN  not_later \o <<t>> \o later

RECURSIVE sort_from(_, _)
sort_from(sorted, list) ==
    IF list = << >> THEN sorted
    ELSE sort_from(insert_by_arrival(sorted, Head(list)), Tail(list))

sort_by_arrival(list) == sort_from(<< >>, list)

\* list[:n]
first_n(list, n) == SubSeq(list, 1, IF Len(list) < n THEN Len(list) ELSE n)

\* The cut made before the sort: the first five in feed order, sorted.
cut_then_sort(list) == sort_by_arrival(first_n(list, TOP_N))

\* trains[direction].sort(...); trains[direction] = trains[direction][:5]
sort_and_limit(list) == first_n(sort_by_arrival(list), TOP_N)

Directions == <<"northbound", "southbound">>

EmptyTrains == [d \in {"northbound", "southbound"} |-> << >>]

NoEntity == [id |-> "none"]
NoStopTime == [stop_id |-> << >>]

\* trip_info of the current entity (defined while its stops are scanned)
trip_info == trips_map_lookup(trips_map, entity.trip_id)[2]

\* The stop ids of the model's feeds: the northbound and the southbound
\* platform of the station, the bare station id, another id that begins
\* with it, and a platform of the next station.
R35N == STOP_ID \o <<"N">>
R35S == STOP_ID \o <<"S">>
R351 == STOP_ID \o <<"1">>
R36N == <<"R", "3", "6", "N">>
StopIds == {R35N, R35S, STOP_ID, R351, R36N}

\* The stop events of Spec: arrival absent, zero or 1; departure absent or 2.
RichStopTimes ==
         {[stop_id |-> id, arrival |-> a, departure |-> d] :
             id \in StopIds, a \in {0, 1}, d \in {2}}
    \cup {[stop_id |-> id, arrival |-> a] : id \in StopIds, a \in {0, 1}}
    \cup {[stop_id |-> id, departure |-> d] : id \in StopIds, d \in {2}}
    \cup {[stop_id |-> id] : id \in StopIds}

\* The feed entities of Spec: a trip update of a trip in trips.txt or not,
\* of either route, or an entity that is no trip update.
RichEntities ==
    {[trip_id |-> t, route_id |-> r] : t \in {"t1", "t2", "t3", "t9"}, r \in Routes}
    \cup {[id |-> "vehicle"]}

\* The stop id of the platform of a bound: f"{stop_id}N", f"{stop_id}S".
platform_stop_id(direction) ==
    STOP_ID \o (IF direction = "northbound" THEN <<"N">> ELSE <<"S">>)

\* The stop events of SpecSort: an arrival at the platform of the trip's
\* bound at a time in 1..MaxTime.
SortStopTimes ==
    {[stop_id |-> platform_stop_id(trip_info.direction), arrival |-> a] : a \in 1..MaxTime}

\* The feed entities of SpecSort: the trips of trips.txt, reported on route R.
SortEntities == {[trip_id |-> t, route_id |-> "R"] : t \in {"t1", "t2", "t3"}}

FeedInit ==
    /\ pc = "idle"
    /\ entities_read = 0
    /\ entity = NoEntity
    /\ stop_ids_seen = << >>
    /\ stop_time = NoStopTime
    /\ found = FALSE
    /\ train = << >>
    /\ trains = EmptyTrains
    /\ extracted = EmptyTrains

\* parse_feed is called: trains = {"northbound": [], "southbound": []}
ParseStart ==
    /\ pc \in {"idle", "done", "failed"}
    /\ pc' = "entities"
    /\ entities_read' = 0
    /\ entity' = NoEntity
    /\ stop_ids_seen' = << >>
    /\ stop_time' = NoStopTime
    /\ found' = FALSE
    /\ train' = << >>
    /\ trains' = EmptyTrains
    /\ extracted' = EmptyTrains
    /\ UNCHANGED <<route_ids, mvars, lvars, dvars, xvars>>

\* `for entity in feed.entity`: the next entity is no trip update, is of a
\* route that is filtered out or of a trip that is not in trips.txt: continue.
ParseEntitySkip(Entities, max_entities) ==
    /\ pc = "entities"
    /\ entities_read < max_entities
    /\ \E e \in Entities :
          /\ \/ ~has_trip_update(e)
             \/ /\ has_trip_update(e)
                /\ \/ route_filtered_out(route_ids, e.route_id)
                   \/ ~trips_map_lookup(trips_map, e.trip_id)[1]
          /\ entity' = e
    /\ entities_read' = entities_read + 1
    /\ stop_ids_seen' = << >>
    /\ stop_time' = NoStopTime
    /\ found' = FALSE
    /\ train' = << >>
    /\ UNCHANGED <<pc, trains, extracted, route_ids, mvars, lvars, dvars, xvars>>

\* The next entity passes the checks: found = False, scan its stop events.
ParseEntity(Entities, max_entities) ==
    /\ pc = "entities"
    /\ entities_read < max_entities
    /\ \E e \in Entities :
          /\ has_trip_update(e)
          /\ ~route_filtered_out(route_ids, e.route_id)
          /\ trips_map_lookup(trips_map, e.trip_id)[1]
          /\ entity' = e
    /\ entities_read' = entities_read + 1
    /\ stop_ids_seen' = << >>
    /\ stop_time' = NoStopTime
    /\ found' = FALSE
    /\ train' = << >>
    /\ pc' = "stops"
    /\ UNCHANGED <<trains, extracted, route_ids, mvars, lvars, dvars, xvars>>

\* The scan going on after a target.
after_target_no_break == "stops"

\* `found = True; break`: after a target the scan of the trip's stop events
\* is over and the loop over the entities goes on.
after_target == "entities"

\* `for stop_time in trip_update.stop_time_update`: the next stop event is
\* not the target.
ParseStopTimePass(StopTimes) ==
    /\ pc = "stops"
    /\ Len(stop_ids_seen) < MaxStops
    /\ \E st \in StopTimes :
          /\ ~is_target(st.stop_id, STOP_ID, trip_info.direction)
          /\ stop_time' = st
          /\ stop_ids_seen' = Append(stop_ids_seen, st.stop_id)
    /\ UNCHANGED <<pc, entities_read, entity, found, train, trains, extracted,
                   route_ids, mvars, lvars, dvars, xvars>>

\* The next stop event is the target: a Train is appended when it has an
\* arrival time, found = True, break.
ParseStopTimeTarget(StopTimes) ==
    /\ pc = "stops"
    /\ Len(stop_ids_seen) < MaxStops
    /\ \E st \in StopTimes :
          /\ is_target(st.stop_id, STOP_ID, trip_info.direction)
          /\ stop_time' = st
          /\ stop_ids_seen' = Append(stop_ids_seen, st.stop_id)
          /\ LET arrival_time == arrival_time_of(st)
                 direction    == trip_info.direction
                 new == Train(entity.route_id, trip_info.destination,
                              arrival_time[2], direction)
             IN  IF arrival_time_truthy(arrival_time)
                 THEN /\ train' = <<new>>
                      /\ trains' = [trains EXCEPT ![direction] = Append(@, new)]
                 ELSE /\ train' = << >>
                      /\ trains' = trains
    /\ found' = TRUE
    /\ pc' = after_target
    /\ UNCHANGED <<entities_read, entity, extracted, route_ids, mvars, lvars, dvars, xvars>>

\* The stop events are exhausted without a target: `if not found`.
ParseStopsEnd ==
    /\ pc = "stops"
    /\ pc' = "entities"
    /\ UNCHANGED <<entities_read, entity, stop_ids_seen, stop_time, found, train,
                   trains, extracted, route_ids, mvars, lvars, dvars, xvars>>

\* The entities are exhausted: sort each list, keep the first five, return.
ParseFinish ==
    /\ pc = "entities"
    /\ pc' = "done"
    /\ extracted' = trains
    /\ trains' = [d \in DOMAIN trains |-> sort_and_limit(trains[d])]
    /\ UNCHANGED <<entities_read, entity, stop_ids_seen, stop_time, found, train,
                   route_ids, mvars, lvars, dvars, xvars>>

\* An exception is raised while an entity or one of its stop events is
\* processed: `except Exception` logs it and returns `trains` as the loop
\* left it, neither sorted nor limited.
ParseFail ==
    /\ pc \in {"entities", "stops"}
    /\ pc' = "failed"
    /\ UNCHANGED <<entities_read, entity, stop_ids_seen, stop_time, found, train,
                   trains, extracted, route_ids, mvars, lvars, dvars, xvars>>

(***************************************************************************)
(* The countdown cell: minutes to arrival and its text                     *)
(***************************************************************************)
MaxNow == 130     \* seconds the clock runs (SpecCountdown)

SECONDS_PER_MINUTE == 60

\* int(x / 60) for an integer number of seconds x: Python's int() truncates
\* towards zero.
int_div_60(x) ==
    IF x >= 0 THEN x \div SECONDS_PER_MINUTE
              ELSE -((-x) \div SECONDS_PER_MINUTE)

max(a, b) == IF a >= b THEN a ELSE b

\* The same without max(0, ...): a train that has left counts below zero.
get_minutes_to_arrival_unclamped(arrival_time, clock) ==
    int_div_60(arrival_time - clock)

\* Train.get_minutes_to_arrival, with current_time = time.time()
get_minutes_to_arrival(arrival_time, clock) ==
    max(0, int_div_60(arrival_time - clock))

DecimalDigits == <<"0", "1", "2", "3", "4", "5", "6", "7", "8", "9">>

\* str(n) of an integer n, as the f-string formats it
RECURSIVE str_int(_)
str_int(n) ==
    IF n < 0 THEN <<"-">> \o str_int(-n)
    ELSE IF n < 10 THEN <<DecimalDigits[n + 1]>>
    ELSE str_int(n \div 10) \o <<DecimalDigits[(n % 10) + 1]>>

NOW_TEXT == <<"N", "O", "W">>

\* "NOW" for every count below two minutes.
format_time_text_now_below_two(m) ==
    IF m <= 1 THEN NOW_TEXT ELSE str_int(m) \o <<"m">>

\* DisplayManager.format_time_text
format_time_text(m) ==
    IF m = 0 THEN NOW_TEXT
    ELSE IF m = 1 THEN <<"1", "m">>
    ELSE str_int(m) \o <<"m">>

\* render_frame: the smaller font for 'NOW', the regular font for minutes
time_font_for(text) == IF text = NOW_TEXT THEN "time_now" ELSE "time"

\* Arrival times of the train of the row, in seconds.
ArrivalTimes == {0, 45, 60, 119, 125, 660, 779, 850}

\* Nothing was drawn yet.
CountdownInit ==
    /\ now = 0
    /\ countdown_train = Train("R", HS_WHITEHALL, 0, "northbound")
    /\ current_time = 0
    /\ minutes = 0
    /\ time_text = << >>
    /\ time_font = "time"

\* Real time advances by a second.
Tick ==
    /\ now < MaxNow
    /\ now' = now + 1
    /\ UNCHANGED <<countdown_train, current_time, minutes, time_text, time_font>>
    /\ UNCHANGED <<mvars, lvars, dvars, fvars, yvars, rvars, avars>>

\* render_frame, step 3, for one row: the minutes are read from the Train,
\* formatted, and the font is chosen.
DrawTime ==
    /\ current_time' = now
    /\ minutes' = get_minutes_to_arrival(countdown_train.arrival_time, current_time')
    /\ time_text' = format_time_text(minutes')
    /\ time_font' = time_font_for(time_text')
    /\ UNCHANGED <<now, countdown_train>>
    /\ UNCHANGED <<mvars, lvars, dvars, fvars, yvars, rvars, avars>>

(***************************************************************************)
(* render_frame: the draw calls of one frame                               *)
(***************************************************************************)
MaxRenders   == 1     \* frames rendered (SpecRender)
MaxArgTrains == 2     \* longest list passed to render_frame (SpecRender)

ROWS_PER_FRAME == 2   \* trains[:2]

\* The order of the steps of render_frame with clipping before the text.
step_after_clip_first(step) ==
    CASE step = "begin"  -> "clip"
      [] step = "clip"   -> "dest"
      [] step = "dest"   -> "badge"
      [] step = "time"   -> "header"
      [] step = "header" -> "commit"
      [] OTHER           -> "done"

\* The order of the steps of render_frame: STEP 1 destination text, STEP 2
\* clipping rectangles, STEP 3 badges and time, STEP 4 header, then the
\* image is displayed or saved.
step_after(step) ==
    CASE step = "begin"  -> "dest"
      [] step = "dest"   -> "clip"
      [] step = "clip"   -> "badge"
      [] step = "time"   -> "header"
      [] step = "header" -> "commit"
      [] OTHER           -> "done"

\* The position after the draw call `step` for row idx of n rows: the next
\* row of the same loop, the time after the badge of a row, or the next
\* step (a loop over no rows is passed over).
position_after(step, idx, n) ==
    IF step = "badge" THEN <<"time", idx>>
    ELSE IF step \in {"dest", "clip", "time"} /\ idx + 1 < n
         THEN <<IF step = "time" THEN "badge" ELSE step, idx + 1>>
    ELSE IF step_after(step) \in {"dest", "clip", "badge"} /\ n = 0
         THEN <<"header", 0>>
    ELSE <<step_after(step), 0>>

draw_call(op, idx) == [op |-> op, row |-> idx]

\* The rows of the frame: trains[:2]
frame_rows == first_n(frame_trains, ROWS_PER_FRAME)

\* Trains that may be passed to render_frame, and the lists of them.
FrameTrainSet ==
    {Train("R", HS_WHITEHALL, 125, "northbound"), Train("N", HS_ASTORIA, 0, "northbound")}

FrameTrainLists ==
    UNION {[1..n -> FrameTrainSet] : n \in 0..MaxArgTrains}

\* draw.textbbox: the measured width of a destination text, in pixels. The
\* longer headsign does not fit its column, the shorter one does.
measured_width(destination) ==
    IF Len(destination) > Len(HS_ASTORIA) THEN DEST_MAX_WIDTH + 20 ELSE DEST_MAX_WIDTH

RenderInit ==
    /\ rpc = "idle"
    /\ row_idx = 0
    /\ frame_direction = "northbound"
    /\ frame_trains = << >>
    /\ draw_log = << >>
    /\ render_fault = "none"
    /\ sink_last = "none"
    /\ sink_image = << >>

\* The position moves on after a draw call.
Advance(step) ==
    LET pos == position_after(step, row_idx, Len(frame_rows))
    IN  rpc' = pos[1] /\ row_idx' = pos[2]

\* render_frame(direction, trains) is called: the frame counter is
\* incremented and a black image is created.
RenderBegin ==
    /\ rpc \in {"idle", "done"}
    /\ frame_count < MaxRenders
    /\ frame_count' = next_frame_count(frame_count)
    /\ \E d \in {"northbound", "southbound"}, l \in FrameTrainLists :
          /\ frame_direction' = d
          /\ frame_trains' = l
          /\ LET pos == position_after("begin", 0, Len(first_n(l, ROWS_PER_FRAME)))
             IN  rpc' = pos[1] /\ row_idx' = pos[2]
    /\ draw_log' = << >>
    /\ render_fault' = "none"
    /\ UNCHANGED <<text_width, offset, dest_x, sink_last, sink_image>>
    /\ UNCHANGED <<lvars, dvars, fvars, yvars, cvars, avars>>

\* STEP 1 for a row, draw_destination_text_only: the text is measured and
\* drawn at x_pos + 2 - offset, or an exception is caught and logged by the
\* helper.
DrawDestination ==
    /\ rpc = "dest"
    /\ \/ /\ text_width' = measured_width(frame_rows[row_idx + 1].destination)
          /\ offset' = calculate_slide_offset(text_width', DEST_MAX_WIDTH, frame_count)
          /\ dest_x' = COL_WIDTH_BADGE + 2 - offset'
          /\ draw_log' = Append(draw_log, draw_call("dest", row_idx))
          /\ UNCHANGED render_fault
       \/ /\ render_fault' = "helper"
          /\ UNCHANGED <<text_width, offset, dest_x, draw_log>>
    /\ Advance("dest")
    /\ UNCHANGED <<frame_count, frame_direction, frame_trains, sink_last, sink_image>>
    /\ UNCHANGED <<lvars, dvars, fvars, yvars, cvars, avars>>

\* STEP 2 for a row, draw_clipping_rectangles: the two black rectangles, or
\* an exception caught and logged by the helper.
DrawClipping ==
    /\ rpc = "clip"
    /\ \/ /\ draw_log' = Append(draw_log, draw_call("clip", row_idx))
          /\ UNCHANGED render_fault
       \/ /\ render_fault' = "helper"
          /\ UNCHANGED draw_log
    /\ Advance("clip")
    /\ UNCHANGED <<frame_direction, frame_trains, sink_last, sink_image>>
    /\ UNCHANGED <<mvars, lvars, dvars, fvars, yvars, cvars, avars>>

\* STEP 3 for a row, draw_train_badge: the badge, or an exception caught and
\* logged by the helper.
DrawBadge ==
    /\ rpc = "badge"
    /\ \/ /\ draw_log' = Append(draw_log, draw_call("badge", row_idx))
          /\ UNCHANGED render_fault
       \/ /\ render_fault' = "helper"
          /\ UNCHANGED draw_log
    /\ Advance("badge")
    /\ UNCHANGED <<frame_direction, frame_trains, sink_last, sink_image>>
    /\ UNCHANGED <<mvars, lvars, dvars, fvars, yvars, cvars, avars>>

\* STEP 3 for a row, the time: minutes, text and font, then draw.text, all
\* in the body of render_frame.
DrawRowTime ==
    /\ rpc = "time"
    /\ countdown_train' = frame_rows[row_idx + 1]
    /\ current_time' = now
    /\ minutes' = get_minutes_to_arrival(countdown_train'.arrival_time, current_time')
    /\ time_text' = format_time_text(minutes')
    /\ time_font' = time_font_for(time_text')
    /\ draw_log' = Append(draw_log, draw_call("time", row_idx))
    /\ Advance("time")
    /\ UNCHANGED <<now, frame_direction, frame_trains, render_fault, sink_last, sink_image>>
    /\ UNCHANGED <<mvars, lvars, dvars, fvars, yvars, avars>>

\* STEP 3 for a row, the time: draw.textbbox or draw.text raises. No helper
\* catches it: control passes to `except Exception` of render_frame, which
\* logs the error and returns; the image is neither displayed nor saved.
DrawRowTimeRaise ==
    /\ rpc = "time"
    /\ render_fault' = "render_frame"
    /\ rpc' = "done"
    /\ UNCHANGED <<row_idx, frame_direction, frame_trains, draw_log, sink_last, sink_image>>
    /\ UNCHANGED <<mvars, lvars, dvars, fvars, yvars, cvars, avars>>

\* STEP 4, draw_header: the header text, or an exception caught and logged
\* by the helper.
DrawHeader ==
    /\ rpc = "header"
    /\ \/ /\ draw_log' = Append(draw_log, draw_call("header", 0))
          /\ UNCHANGED render_fault
       \/ /\ render_fault' = "helper"
          /\ UNCHANGED draw_log
    /\ Advance("header")
    /\ UNCHANGED <<frame_direction, frame_trains, sink_last, sink_image>>
    /\ UNCHANGED <<mvars, lvars, dvars, fvars, yvars, cvars, avars>>

\* display_image or save_test_image: the image goes to the pixel sink.
CommitFrame ==
    /\ rpc = "commit"
    /\ draw_log' = Append(draw_log, draw_call("commit", 0))
    /\ sink_last' = "frame"
    /\ sink_image' = draw_log
    /\ Advance("commit")
    /\ UNCHANGED <<frame_direction, frame_trains, render_fault>>
    /\ UNCHANGED <<mvars, lvars, dvars, fvars, yvars, cvars, avars>>

(***************************************************************************)
(* display_manager.py: the weather frame and its condition scroller        *)
(***************************************************************************)
MaxWeatherFrames  == 200   \* weather frames rendered (SpecWeather)
MaxCondWidth      == 125   \* widest measured condition text (SpecWeather)
MaxWeatherRenders == 1     \* weather frames rendered (SpecCounter)

DISPLAY_WIDTH        == 64
INFO_X               == 15    \* info_x, passed as start_x
WEATHER_FIT_SLACK    == 2     \* text_width <= available_width - 2
WEATHER_MARGIN       == 4     \* "+4 for padding"
weather_pause_frames == 30
weather_slide_frames == 60

\* cycle = (pause_frames + slide_frames) * 2
weather_cycle == (weather_pause_frames + weather_slide_frames) * 2

\* available_width = self.DISPLAY_WIDTH - start_x
available_width(start_x) == DISPLAY_WIDTH - start_x

\* The (slide_distance, progress) pairs, within the model's widths, at which
\* the double-precision product (progress / slide_frames) * slide_distance
\* lands just below the exact integer quotient.
WeatherFloatBelow == { <<75, 44>>, <<90, 42>> }

\* int((progress / slide_frames) * slide_distance)
weather_ramp(progress, sd) ==
    LET exact == (progress * sd) \div weather_slide_frames
    IN  IF <<sd, progress>> \in WeatherFloatBelow THEN exact - 1 ELSE exact

\* DisplayManager._calculate_scroll_offset_weather(text, font, start_x), with
\* the text given by its measured width and self.frame_count passed
\* explicitly.
calculate_scroll_offset_weather(tw, start_x, fc) ==
    IF tw <= available_width(start_x) - WEATHER_FIT_SLACK THEN 0
    ELSE
        LET sd    == tw - available_width(start_x) + WEATHER_MARGIN
            frame == fc % weather_cycle
        IN  IF frame < weather_pause_frames THEN 0
            ELSE IF frame < weather_pause_frames + weather_slide_frames
                 THEN weather_ramp(frame - weather_pause_frames, sd)
            ELSE IF frame < weather_pause_frames * 2 + weather_slide_frames
                 THEN sd
            ELSE sd - weather_ramp(
                        frame - (weather_pause_frames * 2 + weather_slide_frames), sd)

\* The measured width of the condition text of SpecCounter: it scrolls.
CondWidths == {60}

\* The images render_weather sends to the sink.
WeatherUnavailableImage == <<draw_call("weather_unavailable", 0)>>
WeatherImage == <<draw_call("weather", 0)>>

WeatherInit ==
    /\ cond_text_width = 0
    /\ scroll_offset = 0

\* render_weather(weather_data), as a whole: the frame counter is
\* incremented; then, with weather_data None, "Weather Unavailable" is
\* drawn and displayed; otherwise the condition text is measured and drawn
\* at info_x - scroll_offset and the image is displayed; or an exception on
\* the way is caught and logged by render_weather and nothing is displayed.
\* cond_text_width and scroll_offset are those of this call: 0 when the
\* call did not come to measure the condition text.
RenderWeather(Widths, max_frames) ==
    /\ rpc \in {"idle", "done"}
    /\ frame_count < max_frames
    /\ frame_count' = next_frame_count(frame_count)
    /\ \/ /\ sink_last' = "frame"
          /\ sink_image' = WeatherUnavailableImage
          /\ cond_text_width' = 0 /\ scroll_offset' = 0
       \/ \E tw \in Widths :
             /\ cond_text_width' = tw
             /\ scroll_offset' = calculate_scroll_offset_weather(tw, INFO_X, frame_count')
             /\ sink_last' = "frame"
             /\ sink_image' = WeatherImage
       \/ /\ cond_text_width' = 0 /\ scroll_offset' = 0
          /\ UNCHANGED <<sink_last, sink_image>>
    /\ UNCHANGED <<text_width, offset, dest_x>>
    /\ UNCHANGED <<rpc, row_idx, frame_direction, frame_trains, draw_log, render_fault>>
    /\ UNCHANGED <<call_args, call_stop_id, call_trains, wall_clock, last_frame_switch>>
    /\ UNCHANGED <<lvars, dvars, fvars, cvars, avars>>

(***************************************************************************)
(* main.py: the application, its poll thread and its display loop          *)
(***************************************************************************)
MaxPolls     == 1     \* polls started by the update thread (SpecApp)
MaxAppFrames == 1     \* frames rendered by the display loop (SpecApp)

API_UPDATE_INTERVAL == 10   \* Config.API_UPDATE_INTERVAL, seconds
RETRY_DELAY == 5            \* time.sleep(5) of update_loop

Threads == {"main", "update"}

\* parse_feed, first target of a trip: the index of the first stop event
\* that is_target accepts, 0 when there is none.
RECURSIVE target_index(_, _, _, _)
target_index(stops, k, stop_id, direction) ==
    IF k > Len(stops) THEN 0
    ELSE IF is_target(stops[k].stop_id, stop_id, direction) THEN k
    ELSE target_index(stops, k + 1, stop_id, direction)

\* parse_feed, one iteration of the loop over feed.entity: the Train the
\* entity adds, as a list of none or one.
entity_train(e, stop_id, rids) ==
    IF \/ ~has_trip_update(e)
       \/ route_filtered_out(rids, e.route_id)
       \/ ~trips_map_lookup(trips_map, e.trip_id)[1]
    THEN << >>
    ELSE LET info == trips_map_lookup(trips_map, e.trip_id)[2]
             k    == target_index(e.stops, 1, stop_id, info.direction)
         IN  IF k = 0 THEN << >>
             ELSE LET arrival_time == arrival_time_of(e.stops[k])
                  IN  IF arrival_time_truthy(arrival_time)
                      THEN <<Train(e.route_id, info.destination,
                                   arrival_time[2], info.direction)>>
                      ELSE << >>

\* parse_feed, the loop over the first `upto` entities.
RECURSIVE collect_trains(_, _, _, _, _)
collect_trains(acc, entities, k, upto, args) ==
    IF k > upto THEN acc
    ELSE LET t == entity_train(entities[k], args[1], args[2])
         IN  collect_trains(
                 IF t = << >> THEN acc
                 ELSE [acc EXCEPT ![t[1].direction] = Append(@, t[1])],
                 entities, k + 1, upto, args)

\* parse_feed(feed, stop_id, route_ids) as a whole. f.ok = FALSE stands for
\* feed = None (feed.entity raises at once); f.fail_at = k > 0 for a feed
\* whose entity k raises: the handler returns the lists as the loop left
\* them. Otherwise the lists are sorted and limited.
parse_feed(f, stop_id, rids) ==
    IF ~f.ok THEN EmptyTrains
    ELSE IF f.fail_at > 0
         THEN collect_trains(EmptyTrains, f.entities, 1, f.fail_at - 1, <<stop_id, rids>>)
    ELSE LET got == collect_trains(EmptyTrains, f.entities, 1, Len(f.entities),
                                   <<stop_id, rids>>)
         IN  [d \in DOMAIN got |-> sort_and_limit(got[d])]

\* The test of fetch_train_data with the failure let through.
fetch_failed_never(f) == FALSE

\* fetch_train_data: `if feed is None`
fetch_failed(f) == ~f.ok

\* The entities of the feeds of SpecApp: a northbound R trip that calls at
\* 36 St and then at the station, a northbound N trip and a southbound R
\* trip.
AppEntities ==
    << [trip_id |-> "t1", route_id |-> "R",
        stops |-> <<[stop_id |-> R36N, arrival |-> 1], [stop_id |-> R35N, arrival |-> 2]>>],
       [trip_id |-> "t3", route_id |-> "N",
        stops |-> <<[stop_id |-> R35N, arrival |-> 1]>>],
       [trip_id |-> "t2", route_id |-> "R",
        stops |-> <<[stop_id |-> R35S, arrival |-> 1]>>] >>

\* get_feed returned None (HTTP error or undecodable payload).
FeedNone == [ok |-> FALSE, entities |-> << >>, fail_at |-> 0]

\* What get_feed may return: None, a feed without entities, the feed of
\* AppEntities, and the same feed with a third entity that raises when it
\* is processed.
AppFeeds ==
    { FeedNone,
      [ok |-> TRUE, entities |-> << >>, fail_at |-> 0],
      [ok |-> TRUE, entities |-> AppEntities, fail_at |-> 0],
      [ok |-> TRUE, entities |-> AppEntities, fail_at |-> 3] }

\* The draw calls of a frame of n rows in which no call fails.
RECURSIVE calls_from(_, _, _)
calls_from(step, idx, n) ==
    IF step = "done" THEN << >>
    ELSE LET pos == position_after(step, idx, n)
         IN  <<draw_call(step, idx)>> \o calls_from(pos[1], pos[2], n)

frame_calls(n) ==
    LET pos == position_after("begin", 0, n)
    IN  calls_from(pos[1], pos[2], n)

\* display_loop with the error of an iteration passed on to run().
after_display_error_fatal == "fatal"

\* display_loop: where the main thread is after `except Exception` has
\* logged the error of an iteration and slept: in the loop.
after_display_error == "loop"

\* cleanup without its clear.
cleanup_clears_never(m) == FALSE

\* cleanup: `if self.matrix: self.matrix.Clear()`
cleanup_clears(m) == m

other_frame(direction) ==
    IF direction = "northbound" THEN "southbound" ELSE "northbound"

avars_but_main_pc ==
    <<running, matrix, update_pc, fetch_pc, feed, train_data, last_update,
      current_frame, snapshot, last_good, last_good_time>>

\* MTATrainDisplay.__init__
AppInit ==
    /\ running = FALSE
    /\ matrix = TRUE
    /\ main_pc = "created"
    /\ update_pc = "unborn"
    /\ fetch_pc = [t \in Threads |-> "idle"]
    /\ feed = [t \in Threads |-> FeedNone]
    /\ train_data = EmptyTrains
    /\ last_update = 0
    /\ current_frame = "northbound"
    /\ snapshot = EmptyTrains
    /\ last_good = EmptyTrains
    /\ last_good_time = 0

\* Control is back in the caller of fetch_train_data: the main thread
\* enters display_loop, the update thread sleeps.
FetchReturned(t) ==
    IF t = "main" THEN main_pc' = "loop" /\ UNCHANGED update_pc
                  ELSE update_pc' = "sleep" /\ UNCHANGED main_pc

\* The thread t is inside fetch_train_data.
Fetching(t) ==
    IF t = "main" THEN main_pc = "initial_fetch"
                  ELSE update_pc = "fetch" /\ main_pc # "exited"

\* run(): running = True, the update thread is started, and the main thread
\* calls fetch_train_data ("Initial fetch"): its request goes out.
Run ==
    /\ main_pc = "created"
    /\ running' = TRUE
    /\ update_pc' = "loop"
    /\ main_pc' = "initial_fetch"
    /\ fetch_pc' = [fetch_pc EXCEPT !["main"] = "get_feed"]
    /\ UNCHANGED <<matrix, feed, train_data, last_update, current_frame, snapshot,
                   last_good, last_good_time>>
    /\ UNCHANGED <<mvars, lvars, dvars, fvars, yvars, cvars, rvars>>

\* fetch_train_data: get_feed returns. On None the function logs a
\* warning and returns.
FetchReturn(t) ==
    /\ Fetching(t)
    /\ fetch_pc[t] = "get_feed"
    /\ \E f \in AppFeeds :
          /\ feed' = [feed EXCEPT ![t] = f]
          /\ IF fetch_failed(f)
             THEN /\ fetch_pc' = [fetch_pc EXCEPT ![t] = "idle"]
                  /\ FetchReturned(t)
             ELSE /\ fetch_pc' = [fetch_pc EXCEPT ![t] = "assign"]
                  /\ UNCHANGED <<main_pc, update_pc>>
    /\ UNCHANGED <<running, matrix, train_data, last_update, current_frame, snapshot,
                   last_good, last_good_time>>
    /\ UNCHANGED <<mvars, lvars, dvars, fvars, yvars, cvars, rvars>>

\* fetch_train_data: self.train_data = self.mta_client.parse_feed(...)
FetchAssign(t) ==
    /\ Fetching(t)
    /\ fetch_pc[t] = "assign"
    /\ train_data' = parse_feed(feed[t], STOP_ID, route_ids)
    /\ last_good' = IF feed[t].ok THEN train_data' ELSE last_good
    /\ fetch_pc' = [fetch_pc EXCEPT ![t] = "stamp"]
    /\ UNCHANGED <<running, matrix, main_pc, update_pc, feed, last_update,
                   current_frame, snapshot, last_good_time>>
    /\ UNCHANGED <<mvars, lvars, dvars, fvars, yvars, cvars, rvars>>

\* fetch_train_data: self.last_update = time.time(), then return; the
\* local variable feed is gone.
FetchStamp(t) ==
    /\ Fetching(t)
    /\ fetch_pc[t] = "stamp"
    /\ last_update' = now
    /\ last_good_time' = IF feed[t].ok THEN now ELSE last_good_time
    /\ fetch_pc' = [fetch_pc EXCEPT ![t] = "idle"]
    /\ FetchReturned(t)
    /\ feed' = [feed EXCEPT ![t] = FeedNone]
    /\ UNCHANGED <<running, matrix, train_data, current_frame, snapshot, last_good>>
    /\ UNCHANGED <<mvars, lvars, dvars, fvars, yvars, cvars, rvars>>

\* update_loop: `while self.running`: the next poll starts, or the thread
\* ends.
UpdateLoop ==
    /\ update_pc = "loop"
    /\ main_pc # "exited"
    /\ IF running
       THEN /\ now < MaxPolls * API_UPDATE_INTERVAL
            /\ update_pc' = "fetch"
            /\ fetch_pc' = [fetch_pc EXCEPT !["update"] = "get_feed"]
       ELSE /\ update_pc' = "exited"
            /\ UNCHANGED fetch_pc
    /\ UNCHANGED <<running, matrix, main_pc, feed, train_data, last_update,
                   current_frame, snapshot, last_good, last_good_time>>
    /\ UNCHANGED <<mvars, lvars, dvars, fvars, yvars, cvars, rvars>>

\* update_loop: time.sleep(API_UPDATE_INTERVAL) is over.
UpdateSleep ==
    /\ update_pc = "sleep"
    /\ main_pc # "exited"
    /\ now' = now + API_UPDATE_INTERVAL
    /\ update_pc' = "loop"
    /\ UNCHANGED <<running, matrix, main_pc, fetch_pc, feed, train_data, last_update,
                   current_frame, snapshot, last_good, last_good_time>>
    /\ UNCHANGED <<countdown_train, current_time, minutes, time_text, time_font>>
    /\ UNCHANGED <<mvars, lvars, dvars, fvars, yvars, rvars>>

\* update_loop: an exception in the loop body reaches `except Exception`.
UpdateFault ==
    /\ update_pc = "sleep"
    /\ main_pc # "exited"
    /\ update_pc' = "caught"
    /\ UNCHANGED <<running, matrix, main_pc, fetch_pc, feed, train_data, last_update,
                   current_frame, snapshot, last_good, last_good_time>>
    /\ UNCHANGED <<mvars, lvars, dvars, fvars, yvars, cvars, rvars>>

\* update_loop: the error is logged, time.sleep(5), next iteration.
UpdateRecover ==
    /\ update_pc = "caught"
    /\ main_pc # "exited"
    /\ now' = now + RETRY_DELAY
    /\ update_pc' = "loop"
    /\ UNCHANGED <<running, matrix, main_pc, fetch_pc, feed, train_data, last_update,
                   current_frame, snapshot, last_good, last_good_time>>
    /\ UNCHANGED <<countdown_train, current_time, minutes, time_text, time_font>>
    /\ UNCHANGED <<mvars, lvars, dvars, fvars, yvars, rvars>>

\* display_loop, one iteration up to the call of render_frame: the frame is
\* switched when frame_duration has elapsed, and the trains of the current
\* frame are read from self.train_data.
DisplayRead ==
    /\ main_pc = "loop"
    /\ running
    /\ current_frame' \in {current_frame, other_frame(current_frame)}
    /\ snapshot' = train_data
    /\ main_pc' = "render"
    /\ UNCHANGED <<running, matrix, update_pc, fetch_pc, feed, train_data, last_update,
                   last_good, last_good_time>>
    /\ UNCHANGED <<mvars, lvars, dvars, fvars, yvars, cvars, rvars>>

\* display_loop: render_frame(direction, trains) with
\* trains = self.train_data[direction][:2], then time.sleep(1 / DISPLAY_FPS).
\* The frame is committed, or the time of a row raises and render_frame
\* returns without committing.
IssueRender ==
    /\ main_pc = "render"
    /\ frame_count < MaxAppFrames
    /\ frame_count' = next_frame_count(frame_count)
    /\ frame_direction' = current_frame
    /\ LET shown == first_n(snapshot[current_frame], ROWS_PER_FRAME)
           calls  == frame_calls(Len(shown))
       IN  /\ frame_trains' = shown
           /\ \/ /\ draw_log' = calls
                 /\ render_fault' = "none"
                 /\ sink_last' = "frame"
                 /\ sink_image' = SubSeq(calls, 1, Len(calls) - 1)
              \/ /\ shown # << >>
                 /\ draw_log' = << >>
                 /\ render_fault' = "render_frame"
                 /\ UNCHANGED <<sink_last, sink_image>>
    /\ main_pc' = "loop"
    /\ UNCHANGED <<rpc, row_idx, text_width, offset, dest_x>>
    /\ UNCHANGED avars_but_main_pc
    /\ UNCHANGED <<lvars, dvars, fvars, yvars, cvars>>

\* display_loop: an exception in the iteration reaches `except Exception`.
DisplayFault ==
    /\ main_pc = "render"
    /\ main_pc' = "caught"
    /\ UNCHANGED avars_but_main_pc
    /\ UNCHANGED <<mvars, lvars, dvars, fvars, yvars, cvars, rvars>>

\* display_loop: the error is logged, time.sleep(0.1), next iteration.
DisplayRecover ==
    /\ main_pc = "caught"
    /\ main_pc' = after_display_error
    /\ UNCHANGED avars_but_main_pc
    /\ UNCHANGED <<mvars, lvars, dvars, fvars, yvars, cvars, rvars>>

\* The operator interrupts the program: KeyboardInterrupt is raised in the
\* main thread, passes every `except Exception` and is caught by run().
Interrupt ==
    /\ main_pc \in {"initial_fetch", "loop", "render", "caught"}
    /\ main_pc' = "interrupted"
    /\ fetch_pc' = [fetch_pc EXCEPT !["main"] = "idle"]
    /\ UNCHANGED <<running, matrix, update_pc, feed, train_data, last_update,
                   current_frame, snapshot, last_good, last_good_time>>
    /\ UNCHANGED <<mvars, lvars, dvars, fvars, yvars, cvars, rvars>>

\* run(), finally clause, entered after `except KeyboardInterrupt` or after
\* `except Exception` ("Fatal error"): shutdown() sets running = False and
\* calls DisplayManager.cleanup(), which clears the matrix if there is
\* one; run() returns.
Shutdown ==
    /\ main_pc \in {"interrupted", "fatal"}
    /\ running' = FALSE
    /\ IF cleanup_clears(matrix)
       THEN sink_last' = "clear" /\ sink_image' = << >>
       ELSE UNCHANGED <<sink_last, sink_image>>
    /\ main_pc' = "exited"
    /\ UNCHANGED <<matrix, update_pc, fetch_pc, feed, train_data, last_update,
                   current_frame, snapshot, last_good, last_good_time>>
    /\ UNCHANGED <<rpc, row_idx, frame_direction, frame_trains, draw_log, render_fault>>
    /\ UNCHANGED <<mvars, lvars, dvars, fvars, yvars, cvars>>

(***************************************************************************)
(* mta_client.py: parse_feed called without a stop id                      *)
(***************************************************************************)
MaxCallFeed == 2   \* entities of a feed passed to parse_feed (SpecDiscover)

\* str.rstrip(chars)
RECURSIVE rstrip(_, _)
rstrip(str, chars) ==
    IF str # << >> /\ str[Len(str)] \in chars
    THEN rstrip(SubSeq(str, 1, Len(str) - 1), chars)
    ELSE str

\* base = stop_id.rstrip('NS').rstrip('12')
stop_base(stop_id) == rstrip(rstrip(stop_id, {"N", "S"}), {"1", "2"})

\* The route test of _discover_stops written like the one of parse_feed
\* (`is not None`): an empty list lets no route through.
discover_filtered_out_not_none(rids, route_id) ==
    rids # None /\ ~(\E k \in DOMAIN rids : rids[k] = route_id)

\* _discover_stops: `if route_ids and trip.route_id not in route_ids`
discover_filtered_out(rids, route_id) ==
    rids # None /\ rids # << >> /\ ~(\E k \in DOMAIN rids : rids[k] = route_id)

\* stop_counts[base] += 1 on a defaultdict(int), kept as the list of its
\* items in insertion order.
count_base(counts, base) ==
    IF \E k \in DOMAIN counts : counts[k][1] = base
    THEN [k \in DOMAIN counts |->
             IF counts[k][1] = base THEN <<base, counts[k][2] + 1>> ELSE counts[k]]
    ELSE Append(counts, <<base, 1>>)

\* _discover_stops, the loop over stop_time_update of one entity
RECURSIVE count_stops(_, _, _)
count_stops(counts, stops, k) ==
    IF k > Len(stops) THEN counts
    ELSE count_stops(count_base(counts, stop_base(stops[k].stop_id)), stops, k + 1)

\* _discover_stops, the loop over feed.entity
RECURSIVE count_entities(_, _, _, _)
count_entities(counts, entities, k, rids) ==
    IF k > Len(entities) THEN counts
    ELSE LET e == entities[k]
         IN  count_entities(
                 IF ~has_trip_update(e) \/ discover_filtered_out(rids, e.route_id)
                 THEN counts
                 ELSE count_stops(counts, e.stops, 1),
                 entities, k + 1, rids)

\* max(stop_counts.items(), key=lambda x: x[1]): the first item, in
\* insertion order, with the greatest count.
most_common(counts) ==
    counts[CHOOSE k \in DOMAIN counts :
              /\ \A j \in DOMAIN counts : counts[j][2] <= counts[k][2]
              /\ \A j \in 1..(k - 1) : counts[j][2] < counts[k][2]]

\* return "R35"  # Default fallback
FALLBACK_STOP == <<"R", "3", "5">>

\* MTAClient._discover_stops(feed, route_ids)
discover_stops(f, rids) ==
    LET stop_counts == count_entities(<< >>, f.entities, 1, rids)
    IN  IF stop_counts # << >> THEN most_common(stop_counts)[1] ELSE FALLBACK_STOP

\* The entities of the feeds of SpecDiscover: a northbound R trip through
\* 36 St to the station, a southbound R trip at the station, a northbound N
\* trip at 36 St, an N trip at a stop id of the station ending in 1, an R
\* trip that trips.txt does not have, and an entity that is no trip update.
CallEntities ==
    { [trip_id |-> "t1", route_id |-> "R",
       stops |-> <<[stop_id |-> R36N, arrival |-> 1], [stop_id |-> R35N, arrival |-> 2]>>],
      [trip_id |-> "t2", route_id |-> "R",
       stops |-> <<[stop_id |-> R35S, arrival |-> 1]>>],
      [trip_id |-> "t3", route_id |-> "N",
       stops |-> <<[stop_id |-> R36N, arrival |-> 1]>>],
      [trip_id |-> "t3", route_id |-> "N",
       stops |-> <<[stop_id |-> R351, arrival |-> 2]>>],
      [trip_id |-> "t9", route_id |-> "R",
       stops |-> <<[stop_id |-> R35N, arrival |-> 1]>>],
      [id |-> "vehicle"] }

\* The feeds passed to parse_feed: None, or up to MaxCallFeed entities.
CallFeeds ==
    {FeedNone} \cup
    {[ok |-> TRUE, entities |-> es, fail_at |-> 0] :
        es \in UNION {[1..n -> CallEntities] : n \in 0..MaxCallFeed}}

\* No call of parse_feed was made yet.
CallInit ==
    /\ call_args = [feed |-> FeedNone, stop_id |-> None]
    /\ call_stop_id = None
    /\ call_trains = EmptyTrains

\* parse_feed(feed, stop_id, route_ids=Config.ROUTE_IDS), as a whole, with
\* stop_id None or Config.STOP_ID: without a stop id the stop is discovered
\* from the feed first. With feed None the first use of feed.entity raises
\* and the handler returns the empty lists.
ParseFeedCall ==
    /\ \E f \in CallFeeds, sid \in {None, STOP_ID} :
          /\ call_args' = [feed |-> f, stop_id |-> sid]
          /\ IF ~f.ok
             THEN /\ call_stop_id' = sid
                  /\ call_trains' = EmptyTrains
             ELSE /\ call_stop_id' = IF sid = None THEN discover_stops(f, route_ids)
                                                  ELSE sid
                  /\ call_trains' = parse_feed(f, call_stop_id', route_ids)
    /\ UNCHANGED <<cond_text_width, scroll_offset, wall_clock, last_frame_switch>>
    /\ UNCHANGED <<mvars, lvars, dvars, fvars, cvars, rvars, avars>>

(***************************************************************************)
(* main.py: the display loop and the time                                  *)
(***************************************************************************)
MaxClock == 320      \* frame periods the display loop runs (SpecFrames)

FRAME_DURATION == 5  \* Config.FRAME_DURATION, seconds
DISPLAY_FPS    == 30 \* Config.DISPLAY_FPS

\* Config.FRAME_DURATION in frame periods
frame_duration == FRAME_DURATION * DISPLAY_FPS

\* time.sleep(1 / self.config.DISPLAY_FPS), in frame periods
FRAME_SLEEP == DISPLAY_FPS \div DISPLAY_FPS

\* time.sleep(0.1), in frame periods
ERROR_SLEEP == DISPLAY_FPS \div 10

\* How long the initial fetch of run() takes, in frame periods.
InitialFetchTimes == {0, 7}

\* The switch test passing already when exactly frame_duration has elapsed.
switch_due_at_least(current, last) == current - last >= frame_duration

\* `if current_time - last_frame_switch > frame_duration`
switch_due(current, last) == current - last > frame_duration

TimedInit ==
    /\ wall_clock = 0
    /\ last_frame_switch = 0

\* run() up to the display loop, and the entry of display_loop:
\* running = True, the update thread is started, the initial fetch takes
\* its time (here it returns no feed), last_frame_switch = time.time().
EnterDisplayLoop ==
    /\ main_pc = "created"
    /\ running' = TRUE
    /\ \E d \in InitialFetchTimes : wall_clock' = wall_clock + d
    /\ last_frame_switch' = wall_clock'
    /\ main_pc' = "loop"
    /\ update_pc' = "loop"
    /\ UNCHANGED <<matrix, fetch_pc, feed, train_data, last_update,
                   current_frame, snapshot, last_good, last_good_time>>
    /\ UNCHANGED <<cond_text_width, scroll_offset, call_args, call_stop_id, call_trains>>
    /\ UNCHANGED <<mvars, lvars, dvars, fvars, cvars, rvars>>

\* One iteration of `while self.running` in display_loop: the time is read,
\* the frame is switched if due, and then either the rows of the current
\* frame are read and render_frame is called with them, followed by the
\* sleep of one frame period, or an exception is caught after the switch
\* and the loop sleeps 0.1 s without a call of render_frame.
DisplayIteration ==
    /\ main_pc = "loop"
    /\ running
    /\ wall_clock < MaxClock
    /\ IF switch_due(wall_clock, last_frame_switch)
       THEN /\ current_frame' = other_frame(current_frame)
            /\ last_frame_switch' = wall_clock
       ELSE UNCHANGED <<current_frame, last_frame_switch>>
    /\ \/ /\ snapshot' = train_data
          /\ frame_count' = next_frame_count(frame_count)
          /\ frame_direction' = current_frame'
          /\ frame_trains' = first_n(train_data[current_frame'], ROWS_PER_FRAME)
          /\ wall_clock' = wall_clock + FRAME_SLEEP
       \/ /\ wall_clock' = wall_clock + ERROR_SLEEP
          /\ UNCHANGED <<snapshot, frame_count, frame_direction, frame_trains>>
    /\ UNCHANGED <<running, matrix, main_pc, update_pc, fetch_pc, feed, train_data,
                   last_update, last_good, last_good_time>>
    /\ UNCHANGED <<text_width, offset, dest_x>>
    /\ UNCHANGED <<rpc, row_idx, draw_log, render_fault, sink_last, sink_image>>
    /\ UNCHANGED <<cond_text_width, scroll_offset, call_args, call_stop_id, call_trains>>
    /\ UNCHANGED <<lvars, dvars, fvars, cvars>>

(***************************************************************************)
(* Marquee: one rendered frame                                             *)
(***************************************************************************)
MarqueeInit ==
    /\ frame_count = 0
    /\ text_width = 0
    /\ offset = 0
    /\ dest_x = COL_WIDTH_BADGE + 2

\* The state of everything but aggregation, direction resolution and the
\* marquee, after construction.
YInit == WeatherInit /\ CallInit /\ TimedInit

XInit == CountdownInit /\ RenderInit /\ AppInit /\ YInit

\* render_frame: the counter is incremented, then the destination of a row
\* is measured and drawn at x_pos + 2 - offset.
RenderFrame ==
    /\ frame_count < MaxFrames
    /\ frame_count' = next_frame_count(frame_count)
    /\ \E tw \in 0..MaxTextWidth :
          /\ text_width' = tw
          /\ offset' = calculate_slide_offset(tw, DEST_MAX_WIDTH, frame_count')
          /\ dest_x' = COL_WIDTH_BADGE + 2 - offset'
    /\ UNCHANGED <<lvars, dvars, fvars, xvars>>

NextMarquee == RenderFrame

\* The state after construction with the configuration as shipped
\* (Config.ROUTE_IDS = []) and trips.txt not read yet.
Init ==
    MarqueeInit /\ LoadInit /\ DiagInit /\ FeedInit /\ route_ids = << >> /\ XInit

SpecMarquee == Init /\ [][NextMarquee]_vars

(***************************************************************************)
(* Direction resolution: trips.txt loading, and the diagnostic classifier  *)
(***************************************************************************)
NextTrips == LoadTripsRow

SpecTrips == Init /\ [][NextTrips]_vars

NextDiag == DiagnoseSkip \/ DiagnoseTrip

SpecDiag == Init /\ [][NextDiag]_vars

(***************************************************************************)
(* The countdown of one row while time passes                              *)
(***************************************************************************)
\* A row shows a train of trips.txt with an arrival time of ArrivalTimes.
InitCountdown ==
    /\ MarqueeInit /\ LoadInit /\ DiagInit /\ FeedInit /\ route_ids = << >>
    /\ now = 0
    /\ \E a \in ArrivalTimes :
          countdown_train = Train("R", HS_WHITEHALL, a, "northbound")
    /\ current_time = 0
    /\ minutes = 0
    /\ time_text = << >>
    /\ time_font = "time"
    /\ RenderInit /\ AppInit /\ YInit

NextCountdown == Tick \/ DrawTime

SpecCountdown == InitCountdown /\ [][NextCountdown]_vars

(***************************************************************************)
(* Frames drawn one after the other                                        *)
(***************************************************************************)
NextRender ==
    \/ RenderBegin
    \/ DrawDestination
    \/ DrawClipping
    \/ DrawBadge
    \/ DrawRowTime
    \/ DrawRowTimeRaise
    \/ DrawHeader
    \/ CommitFrame

InitRender == Init

SpecRender == InitRender /\ [][NextRender]_vars

(***************************************************************************)
(* Weather frames one after the other                                      *)
(***************************************************************************)
NextWeather == RenderWeather(1..MaxCondWidth, MaxWeatherFrames)

InitWeather == Init

SpecWeather == InitWeather /\ [][NextWeather]_vars

(***************************************************************************)
(* parse_feed called with and without a stop id                            *)
(***************************************************************************)
\* trips.txt was read; Config.ROUTE_IDS is None, the empty list or ["R"].
InitDiscover ==
    /\ MarqueeInit /\ DiagInit /\ FeedInit /\ XInit
    /\ trips_map = load_trips_file(TripsFile)
    /\ row = [trip_id |-> ""]
    /\ rows_read = 0
    /\ route_ids \in {None, << >>, <<"R">>}

NextDiscover == ParseFeedCall

SpecDiscover == InitDiscover /\ [][NextDiscover]_vars

(***************************************************************************)
(* Train frames and weather frames on one DisplayManager                   *)
(***************************************************************************)
NextCounter ==
    \/ RenderBegin
    \/ DrawDestination
    \/ DrawClipping
    \/ DrawBadge
    \/ DrawRowTime
    \/ DrawRowTimeRaise
    \/ DrawHeader
    \/ CommitFrame
    \/ RenderWeather(CondWidths, MaxRenders + MaxWeatherRenders)

InitCounter == Init

SpecCounter == InitCounter /\ [][NextCounter]_vars

(***************************************************************************)
(* The application: poll thread and display loop                           *)
(***************************************************************************)
\* trips.txt was read, Config.ROUTE_IDS = None (all routes), the program
\* starts at time 1, with an LED matrix or in test mode.
InitApp ==
    /\ MarqueeInit /\ DiagInit /\ FeedInit /\ RenderInit /\ YInit
    /\ trips_map = load_trips_file(TripsFile)
    /\ row = [trip_id |-> ""]
    /\ rows_read = 0
    /\ route_ids = None
    /\ now = 1
    /\ countdown_train = Train("R", HS_WHITEHALL, 0, "northbound")
    /\ current_time = 0
    /\ minutes = 0
    /\ time_text = << >>
    /\ time_font = "time"
    /\ running = FALSE
    /\ matrix \in BOOLEAN
    /\ main_pc = "created"
    /\ update_pc = "unborn"
    /\ fetch_pc = [t \in Threads |-> "idle"]
    /\ feed = [t \in Threads |-> FeedNone]
    /\ train_data = EmptyTrains
    /\ last_update = 0
    /\ current_frame = "northbound"
    /\ snapshot = EmptyTrains
    /\ last_good = EmptyTrains
    /\ last_good_time = 0

NextApp ==
    \/ Run
    \/ FetchReturn("main")
    \/ FetchAssign("main")
    \/ FetchStamp("main")
    \/ FetchReturn("update")
    \/ FetchAssign("update")
    \/ FetchStamp("update")
    \/ UpdateLoop
    \/ UpdateSleep
    \/ UpdateFault
    \/ UpdateRecover
    \/ DisplayRead
    \/ IssueRender
    \/ DisplayFault
    \/ DisplayRecover
    \/ Interrupt
    \/ Shutdown

SpecApp == InitApp /\ [][NextApp]_vars

\* The main thread is scheduled: on its way to the next call of
\* render_frame a step it can take (a return of get_feed, which has a
\* timeout, the end of a sleep, the next statement of the display loop) is
\* taken. Faults and the interrupt are not forced.
MainFairness ==
    /\ WF_vars(FetchReturn("main"))
    /\ WF_vars(FetchAssign("main"))
    /\ WF_vars(FetchStamp("main"))
    /\ WF_vars(DisplayRead)
    /\ WF_vars(DisplayRecover)

SpecAppLive == InitApp /\ [][NextApp]_vars /\ MainFairness

(***************************************************************************)
(* The display loop while time passes                                      *)
(***************************************************************************)
NextFrames ==
    \/ EnterDisplayLoop
    \/ DisplayIteration
    \/ Interrupt
    \/ Shutdown

InitFrames == InitApp

SpecFrames == InitFrames /\ [][NextFrames]_vars

\* The main thread is scheduled: an iteration of the display loop that can
\* begin does begin. The interrupt is not forced.
FramesFairness == WF_vars(DisplayIteration)

SpecFramesLive == InitFrames /\ [][NextFrames]_vars /\ FramesFairness

(***************************************************************************)
(* Aggregation of a feed                                                   *)
(***************************************************************************)
\* trips.txt was read (or could not be opened: the map stays empty), and
\* Config.ROUTE_IDS is None, the empty list as shipped, or ["R"].
InitFeed ==
    /\ MarqueeInit /\ DiagInit /\ FeedInit /\ XInit
    /\ trips_map \in {load_trips_file(TripsFile), << >>}
    /\ row = [trip_id |-> ""]
    /\ rows_read = 0
    /\ route_ids \in {None, << >>, <<"R">>}

Next ==
    \/ ParseStart
    \/ ParseEntitySkip(RichEntities, MaxFeed)
    \/ ParseEntity(RichEntities, MaxFeed)
    \/ ParseStopTimePass(RichStopTimes)
    \/ ParseStopTimeTarget(RichStopTimes)
    \/ ParseStopsEnd
    \/ ParseFinish
    \/ ParseFail

Spec == InitFeed /\ [][Next]_vars

\* Long feeds of route R with Config.ROUTE_IDS = ["R"].
InitSort ==
    /\ MarqueeInit /\ DiagInit /\ FeedInit /\ XInit
    /\ trips_map = load_trips_file(TripsFile)
    /\ row = [trip_id |-> ""]
    /\ rows_read = 0
    /\ route_ids = <<"R">>

NextSort ==
    \/ ParseStart
    \/ ParseEntity(SortEntities, MaxTrips)
    \/ ParseStopTimeTarget(SortStopTimes)
    \/ ParseFinish

SpecSort == InitSort /\ [][NextSort]_vars

(***************************************************************************)
(* Claims about aggregation                                                *)
(***************************************************************************)
Range(seq) == {seq[i] : i \in DOMAIN seq}

Count(seq, x) == Cardinality({i \in DOMAIN seq : seq[i] = x})

IsPrefix(a, b) == Len(a) <= Len(b) /\ SubSeq(b, 1, Len(a)) = a

ArrivingAt(list, t) == SelectSeq(list, LAMBDA x : x.arrival_time = t)

TripScanned ==
    /\ has_trip_update(entity)
    /\ ~route_filtered_out(route_ids, entity.route_id)
    /\ entity.trip_id \in DOMAIN trips_map

InList(rids, route_id) == \E k \in DOMAIN rids : rids[k] = route_id

C3_Step ==
    /\ route_ids' # None =>
          \A d \in DOMAIN trains' : \A x \in Range(trains'[d]) :
              InList(route_ids', x.route_id)
    /\ ( /\ route_ids = None
         /\ pc = "entities" /\ pc' = "entities"
         /\ entities_read' = entities_read + 1
         /\ has_trip_update(entity') )
        => entity'.trip_id \notin DOMAIN trips_map

\* C3 (Spec): with a list of monitored routes configured, every arrival in
\* either list has a route_id of the list, at every step of parse_feed;
\* with None configured, an iteration that skips a trip update does so only
\* because the trip is not in trips.txt, never because of its route.
C3_OnlyMonitoredRoutes == [][C3_Step]_vars

\* With ["R"] configured: a returned list holds an arrival of route R, and
\* the last entity of the feed, a trip of trips.txt on route N, was skipped.
C3_Witness ==
    /\ route_ids # None
    /\ Len(route_ids) = 1
    /\ route_ids[1] = "R"
    /\ pc = "done"
    /\ \E d \in DOMAIN trains : trains[d] # << >>
    /\ has_trip_update(entity)
    /\ entity.route_id = "N"
    /\ entity.trip_id \in DOMAIN trips_map

\* C4 (Spec), as claimed: for a trip and a bound, when none of the stop
\* events scanned for the trip has the stop id of that bound's platform
\* (base id followed by N or S), the trip has produced no arrival for that
\* bound.
C4_NoArrivalWithoutPlatformStop ==
    TripScanned =>
        \A b \in DOMAIN trains :
            (\A id \in Range(stop_ids_seen) : id # platform_stop_id(b))
                => \A x \in Range(train) : x.direction # b

\* C13 (Spec), as claimed: whenever parse_feed has returned from its
\* exception handler, and whenever it has returned for a feed without
\* entities, both lists of the returned mapping are empty.
C13_FailureReturnsEmptyLists ==
    ( \/ pc = "failed"
      \/ pc = "done" /\ entities_read = 0 )
    => /\ trains["northbound"] = << >>
       /\ trains["southbound"] = << >>

\* C21 (Spec), as claimed: when the scan of a trip's stop events has found
\* its event, that event is the first one whose stop_id is the target stop
\* id, the base id followed by the suffix of the trip's bound: no event
\* scanned before it has that id, and it has that id itself.
C21_FirstPlatformEventUsed ==
    (TripScanned /\ found) =>
        /\ \A i \in 1..(Len(stop_ids_seen) - 1) :
              stop_ids_seen[i] # platform_stop_id(trip_info.direction)
        /\ stop_time.stop_id = platform_stop_id(trip_info.direction)

C25_OneArrivalPerTripInItsBound ==
    /\ \A d \in DOMAIN trains : \A x \in Range(trains[d]) : x.direction = d
    /\ Range(trains["northbound"]) \cap Range(trains["southbound"]) = {}
    /\ Len(trains["northbound"]) + Len(trains["southbound"]) <= entities_read
    /\ (TripScanned /\ train # << >>) =>
          /\ Len(train) = 1
          /\ train[1].direction = trip_info.direction
    /\ (TripScanned /\ train # << >> /\ pc \in {"entities", "failed"}) =>
          \A d \in DOMAIN trains :
              d # trip_info.direction => train[1] \notin Range(trains[d])

\* A feed of three trips was aggregated: two arrivals northbound, one
\* southbound.
C25_Witness ==
    /\ pc = "done"
    /\ entities_read = 3
    /\ Len(trains["northbound"]) = 2
    /\ Len(trains["southbound"]) = 1

\* C30 (Spec): a trip update whose trip_id is not in the trips table is
\* skipped before its stop events are scanned and contributes no arrival,
\* whatever its route and stop events; and with an empty table both lists
\* are empty at every point of every aggregation, the returned lists
\* included.
C30_UnknownTripContributesNothing ==
    /\ (has_trip_update(entity) /\ entity.trip_id \notin DOMAIN trips_map) =>
          /\ pc # "stops"
          /\ stop_ids_seen = << >>
          /\ ~found
          /\ train = << >>
    /\ trips_map = << >> =>
          /\ trains["northbound"] = << >>
          /\ trains["southbound"] = << >>
          /\ extracted = EmptyTrains

\* With the table loaded, a feed whose last trip update is of a trip that
\* is not in the table was aggregated after an arrival of a known trip.
C30_Witness ==
    /\ trips_map # << >>
    /\ pc = "done"
    /\ entities_read = 2
    /\ has_trip_update(entity)
    /\ entity.trip_id = "t9"
    /\ Len(trains["northbound"]) + Len(trains["southbound"]) = 1

\* The stop events of the trip updates of a feed, as pairs of the entity's
\* and the event's position, and how many of them have a base stop id.
StopEvents(f) ==
    UNION { {<<i, j>> : j \in DOMAIN f.entities[i].stops} :
                i \in {i \in DOMAIN f.entities : has_trip_update(f.entities[i])} }

StopOccurrences(f, base) ==
    Cardinality({p \in StopEvents(f) :
                    stop_base(f.entities[p[1]].stops[p[2]].stop_id) = base})

\* C28 (SpecDiscover): with the monitored-route setting the empty list,
\* parse_feed returns both lists empty for every feed, with the configured
\* stop id or a discovered one; with None, a feed with a trip of trips.txt
\* that calls at the platform of its bound yields an arrival whatever its
\* route. Stop discovery with the empty list counts the stop events of the
\* trips of all routes: it returns a base stop id that no other base stop
\* id of the feed outnumbers, or "R35" for a feed without stop events.
C28_EmptyRouteListFiltersAll ==
    /\ (route_ids # None /\ route_ids = << >>) =>
          /\ call_trains = EmptyTrains
          /\ (call_args.feed.ok /\ call_args.stop_id = None) =>
                LET f == call_args.feed
                IN  IF StopEvents(f) = {}
                    THEN call_stop_id = FALLBACK_STOP
                    ELSE /\ StopOccurrences(f, call_stop_id) > 0
                         /\ \A p \in StopEvents(f) :
                               StopOccurrences(f,
                                   stop_base(f.entities[p[1]].stops[p[2]].stop_id))
                                 <= StopOccurrences(f, call_stop_id)
    /\ (route_ids = None /\ call_args.feed.ok /\ call_args.stop_id # None) =>
          \A i \in DOMAIN call_args.feed.entities :
              LET e == call_args.feed.entities[i]
              IN  ( /\ has_trip_update(e)
                    /\ e.trip_id \in DOMAIN trips_map
                    /\ \E j \in DOMAIN e.stops :
                          e.stops[j].stop_id =
                              platform_stop_id(trips_map[e.trip_id].direction) )
                  => \E x \in Range(call_trains[trips_map[e.trip_id].direction]) :
                         x.route_id = e.route_id

\* With the empty list configured, parse_feed was called without a stop id
\* on a feed of an N trip at 36 St followed by an R trip at the station:
\* the N trip was counted, 36 St was discovered (with ["R"] it would have
\* been the station), and nothing was returned.
C28_Witness ==
    /\ route_ids # None
    /\ route_ids = << >>
    /\ call_args.stop_id = None
    /\ call_args.feed.ok
    /\ Len(call_args.feed.entities) = 2
    /\ \A i \in 1..2 : has_trip_update(call_args.feed.entities[i])
    /\ call_args.feed.entities[1].route_id = "N"
    /\ call_args.feed.entities[2].route_id = "R"
    /\ call_stop_id = stop_base(R36N)
    /\ discover_stops(call_args.feed, <<"R">>) = STOP_ID
    /\ call_trains = EmptyTrains

(***************************************************************************)
(* Claims about direction resolution                                       *)
(***************************************************************************)
\* The row read last was stored in trips_map.
RowStored == rows_read > 0 /\ truthy_id(row_trip_id(row))

\* Its direction_id cell, when the column is there and the cell is a string.
RowHasDirectionId == "direction_id" \in DOMAIN row /\ row.direction_id # None

\* A headsign names a bound when it contains a keyword of either set.
NamesNorth(headsign) == any_word_in(NorthKeywords, lower(headsign))
NamesSouth(headsign) == any_word_in(SouthKeywords, lower(headsign))

\* C5 (SpecTrips): a trip whose direction_id is 0 or 1 resolves to
\* northbound if and only if the direction_id is 0, and to southbound if and
\* only if it is 1; this holds of the direction stored for a trips.txt row
\* and of the classification of every feed trip by diagnose_southbound.
C5_DirectionIdDecides ==
    /\ (RowStored /\ RowHasDirectionId /\ row.direction_id \in {"0", "1"}) =>
          /\ trips_map[row.trip_id].direction = "northbound" <=> row.direction_id = "0"
          /\ trips_map[row.trip_id].direction = "southbound" <=> row.direction_id = "1"
    /\ \A t \in DiagTrips :
          (has_direction_id(t) /\ t.direction_id \in {0, 1}) =>
              /\ classification[t][1] = "northbound" <=> t.direction_id = 0
              /\ classification[t][1] = "southbound" <=> t.direction_id = 1

\* A row with direction_id '1' and a headsign naming no bound, stored as
\* southbound after an earlier row was stored as northbound.
C5_Witness ==
    /\ RowStored /\ RowHasDirectionId
    /\ row.direction_id = "1"
    /\ trips_map[row.trip_id].direction = "southbound"
    /\ \E id \in DOMAIN trips_map : trips_map[id].direction = "northbound"

\* C6 (SpecTrips), as claimed: resolution always yields northbound or
\* southbound, and a trip whose direction_id is absent or is neither 0 nor
\* 1, and whose headsign and trip_id name no bound, resolves to northbound.
C6_DefaultsToNorthbound ==
    RowStored =>
        /\ trips_map[row.trip_id].direction \in {"northbound", "southbound"}
        /\ ( /\ ~(RowHasDirectionId /\ row.direction_id \in {"0", "1"})
             /\ ~NamesNorth(row_get(row, "trip_headsign", HS_UNKNOWN))
             /\ ~NamesSouth(row_get(row, "trip_headsign", HS_UNKNOWN)) )
            => trips_map[row.trip_id].direction = "northbound"

C8_FittingTextNeverMoves ==
    text_width <= DEST_MAX_WIDTH =>
        /\ offset = 0
        /\ dest_x = COL_WIDTH_BADGE + 2

\* A text exactly as wide as the column, drawn in the middle of what would
\* be the slide-forward phase of the second cycle.
C8_Witness ==
    /\ text_width = DEST_MAX_WIDTH
    /\ frame_count = cycle_duration + pause_frames + 15
    /\ offset = 0

\* C9: for text wider than the available width the offset is 0 whenever
\* frame_count mod cycle_duration = 0, and at the midpoint of the cycle,
\* which lies in the pause-at-end phase, it equals
\* slide_distance = text_width - available_width + margin.
C9_ZeroAtCycleStartFullAtMidpoint ==
    text_width > DEST_MAX_WIDTH =>
        /\ (frame_count % cycle_duration = 0 => offset = 0)
        /\ (frame_count % cycle_duration = cycle_duration \div 2 =>
                /\ offset = text_width - DEST_MAX_WIDTH + SLIDE_MARGIN
                /\ pause_frames + slide_frames <= cycle_duration \div 2
                /\ cycle_duration \div 2 < pause_frames + slide_frames + pause_frames)

\* Wide text at the midpoint of the second cycle, fully slid.
C9_Witness ==
    /\ text_width = DEST_MAX_WIDTH + 40
    /\ frame_count = cycle_duration + cycle_duration \div 2
    /\ offset = 45

\* C10: the offset is a natural number; for text wider than the available
\* width it never exceeds slide_distance, and for text that fits (for which
\* no slide distance is computed) it is 0; this holds at every frame of
\* every cycle.
C10_OffsetWithinSlideDistance ==
    /\ offset \in Nat
    /\ text_width > DEST_MAX_WIDTH =>
            offset <= text_width - DEST_MAX_WIDTH + SLIDE_MARGIN
    /\ text_width <= DEST_MAX_WIDTH => offset <= 0

\* Wide text in the slide-backward phase of the second cycle, strictly
\* between the two ends of the slide.
C10_Witness ==
    /\ text_width > DEST_MAX_WIDTH
    /\ frame_count > cycle_duration
    /\ frame_count % cycle_duration > pause_frames + slide_frames + pause_frames
    /\ 0 < offset
    /\ offset < text_width - DEST_MAX_WIDTH + SLIDE_MARGIN

\* C23: over one animation cycle, for text wider than its column, the
\* offset is 0 for the first pause_frames frames; in the next
\* (cycle_duration - 2 * pause_frames) / 2 frames it starts at 0, stays
\* between 0 and slide_distance and, for a text of unchanged width, is never
\* less than in the frame before; in the next pause_frames frames it is
\* exactly slide_distance; in the remaining frames of the cycle it starts
\* from slide_distance, stays between 0 and slide_distance and, for a text
\* of unchanged width, is never more than in the frame before.
C23_Step ==
    LET f     == frame_count' % cycle_duration
        sd    == text_width' - DEST_MAX_WIDTH + SLIDE_MARGIN
        sf    == (cycle_duration - 2 * pause_frames) \div 2
        same  == text_width = text_width' /\ frame_count' = frame_count + 1
    IN  text_width' > DEST_MAX_WIDTH =>
          /\ f < pause_frames => offset' = 0
          /\ (pause_frames <= f /\ f < pause_frames + sf) =>
                /\ 0 <= offset' /\ offset' <= sd
                /\ f = pause_frames => offset' = 0
                /\ (same /\ f > pause_frames) => offset' >= offset
          /\ (pause_frames + sf <= f /\ f < pause_frames + sf + pause_frames) =>
                offset' = sd
          /\ pause_frames + sf + pause_frames <= f =>
                /\ 0 <= offset' /\ offset' <= sd
                /\ f = pause_frames + sf + pause_frames => offset' = sd
                /\ same => offset' <= offset
          /\ pause_frames + sf + pause_frames < cycle_duration

C23_FourPhases == [][C23_Step]_vars

\* Wide text half way through the slide-forward phase of the second cycle,
\* half way along its slide distance.
C23_Witness ==
    /\ text_width = DEST_MAX_WIDTH + 25
    /\ frame_count = cycle_duration + pause_frames + 15
    /\ offset = 15

\* C27 (SpecWeather), as claimed: the weather-condition scroller returns,
\* for the same text width, available width and frame counter, the offset
\* the train-destination scroller returns: whenever a weather frame measures
\* and draws the condition text, its scroll offset is what
\* _calculate_slide_offset gives for that width in a column as wide as the
\* space from info_x to the right edge, at the same frame counter.
C27_WeatherScrollerSameAsDestination ==
    cond_text_width > 0 =>
        scroll_offset = calculate_slide_offset(cond_text_width,
                                               available_width(INFO_X), frame_count)

(***************************************************************************)
(* Claims about the countdown                                              *)
(***************************************************************************)
digit_value(c) == CHOOSE d \in 0..9 : DecimalDigits[d + 1] = c

RECURSIVE decimal_value(_)
decimal_value(digits) ==
    IF digits = << >> THEN 0
    ELSE 10 * decimal_value(SubSeq(digits, 1, Len(digits) - 1))
         + digit_value(digits[Len(digits)])

IsDigit(c) == \E d \in 0..9 : DecimalDigits[d + 1] = c

\* C11 (SpecCountdown): once a countdown was drawn, its text is "NOW"
\* exactly when the minutes are 0; for N >= 1 minutes it is the decimal
\* digits of N, without a leading zero, followed by "m" ("1m" for 1, "12m"
\* for 12); and the smaller font time_now is chosen exactly for "NOW".
C11_CountdownText ==
    time_text # << >> =>
        /\ (minutes = 0) <=> (time_text = <<"N", "O", "W">>)
        /\ minutes >= 1 =>
              LET digits == SubSeq(time_text, 1, Len(time_text) - 1)
              IN  /\ Len(time_text) >= 2
                  /\ time_text[Len(time_text)] = "m"
                  /\ \A i \in DOMAIN digits : IsDigit(digits[i])
                  /\ digits[1] # "0"
                  /\ decimal_value(digits) = minutes
        /\ minutes = 1 => time_text = <<"1", "m">>
        /\ minutes = 12 => time_text = <<"1", "2", "m">>
        /\ (time_font = "time_now") <=> (time_text = <<"N", "O", "W">>)
        /\ time_font \in {"time_now", "time"}

\* A train 12 minutes away is drawn as "12m" in the regular font.
C11_Witness ==
    /\ minutes = 12
    /\ time_text = <<"1", "2", "m">>
    /\ time_font = "time"

floor_minutes(seconds) == seconds \div SECONDS_PER_MINUTE

C12_Step ==
    time_text' # << >> =>
        /\ minutes' = (IF floor_minutes(countdown_train'.arrival_time - current_time') > 0
                       THEN floor_minutes(countdown_train'.arrival_time - current_time')
                       ELSE 0)
        /\ minutes' >= 0
        /\ (time_text # << >> /\ current_time' >= current_time) => minutes' <= minutes

\* C12 (SpecCountdown): every read of the minutes to arrival yields
\* max(0, floor((arrival_time - current_time) / 60)) for the time of that
\* read; it is never negative, and a later read of the same train never
\* yields more than an earlier one.
C12_MinutesFromClock == [][C12_Step]_vars

\* The train has left: the last read was taken after its arrival time and
\* gave 0.
C12_Witness ==
    /\ time_text = <<"N", "O", "W">>
    /\ minutes = 0
    /\ countdown_train.arrival_time = 119
    /\ current_time > 125

(***************************************************************************)
(* Claims about the frame renderer                                         *)
(***************************************************************************)
\* The layer of a draw call: later layers cover earlier ones.
Layer(op) ==
    CASE op = "dest"   -> 1
      [] op = "clip"   -> 2
      [] op = "badge"  -> 3
      [] op = "time"   -> 3
      [] op = "header" -> 4
      [] op = "commit" -> 5

\* The draw calls of a frame of n rows drawn without a fault.
FullFrame(n) ==
    [i \in 1..n |-> [op |-> "dest", row |-> i - 1]]
    \o [i \in 1..n |-> [op |-> "clip", row |-> i - 1]]
    \o [i \in 1..(2 * n) |->
           [op |-> IF i % 2 = 1 THEN "badge" ELSE "time", row |-> (i - 1) \div 2]]
    \o <<[op |-> "header", row |-> 0], [op |-> "commit", row |-> 0]>>

\* C16 (SpecRender): at every point of a render the draw calls made so far
\* are in layer order: destination texts, then clipping rectangles, then
\* badges and times, then the header, then the commit to the pixel sink;
\* so no destination text follows a clipping rectangle and only the commit
\* follows the header. A frame rendered without a fault consists of all
\* rows' texts, all rows' rectangles, each row's badge and time, the header
\* and the commit, in this order.
C16_DrawOrder ==
    /\ \A i, j \in DOMAIN draw_log :
          i < j => Layer(draw_log[i].op) <= Layer(draw_log[j].op)
    /\ \A i, j \in DOMAIN draw_log :
          (i < j /\ draw_log[i].op = "header") => draw_log[j].op = "commit"
    /\ (rpc = "done" /\ render_fault = "none") =>
          draw_log = FullFrame(Len(frame_rows))

\* A frame of two rows was rendered without a fault and committed.
C16_Witness ==
    /\ rpc = "done"
    /\ render_fault = "none"
    /\ Len(frame_rows) = 2
    /\ Len(draw_log) = 10
    /\ sink_last = "frame"

\* C17 (SpecRender), as claimed: when render_frame has returned from a frame
\* in which a drawing call failed, the image with the draw calls made before
\* and after the failure was committed to the pixel sink.
C17_FaultyFrameCommitted ==
    (rpc = "done" /\ render_fault # "none") =>
        /\ draw_log # << >>
        /\ draw_log[Len(draw_log)].op = "commit"
        /\ sink_last = "frame"
        /\ sink_image = SubSeq(draw_log, 1, Len(draw_log) - 1)

\* A call of render_frame or of render_weather begins.
FrameBegins ==
    RenderBegin \/ RenderWeather(CondWidths, MaxRenders + MaxWeatherRenders)

\* C26 (SpecCounter): the frame counter increases by exactly one in every
\* call of render_frame or render_weather, also in a call that ends in a
\* caught exception; nothing else changes it: it keeps its value from the
\* beginning of a frame to the next call, so that every row of a frame is
\* animated from the same value; and the offset of a row is the one
\* computed from the counter of its frame, which is the same for every
\* counter value with the same remainder modulo cycle_duration.
C26_Step ==
    /\ FrameBegins => frame_count' = frame_count + 1
    /\ frame_count' # frame_count => FrameBegins
    /\ rpc \notin {"idle", "done"} => frame_count' = frame_count
    /\ (rpc = "dest" /\ draw_log' # draw_log) =>
          /\ offset' = calculate_slide_offset(text_width', DEST_MAX_WIDTH, frame_count)
          /\ \A fc \in 0..MaxFrames :
                calculate_slide_offset(text_width', DEST_MAX_WIDTH, fc)
                    = calculate_slide_offset(text_width', DEST_MAX_WIDTH,
                                             fc % cycle_duration)

C26_CounterOncePerFrame == [][C26_Step]_vars

\* A train frame of two rows was given up at the time of its second row
\* after both destinations were drawn, the weather frame after it was given
\* up too, nothing was ever displayed, and the counter stands at 2.
C26_Witness ==
    /\ frame_count = 2
    /\ render_fault = "render_frame"
    /\ rpc = "done"
    /\ row_idx = 1
    /\ Len(draw_log) >= 2
    /\ sink_last = "none"
    /\ cond_text_width = 0

(***************************************************************************)
(* Claims about the application                                            *)
(***************************************************************************)
C14_Step ==
    /\ train_data' = last_good'
    /\ last_update' = last_good_time'
    /\ \A t \in Threads :
          (fetch_pc[t] = "get_feed" /\ fetch_pc'[t] = "idle") =>
              /\ train_data' = train_data
              /\ last_update' = last_update
    /\ (main_pc = "loop" /\ main_pc' = "render") => snapshot' = last_good
    /\ frame_count' # frame_count =>
          frame_trains' = first_n(snapshot[frame_direction'], ROWS_PER_FRAME)

\* C14 (SpecApp): train_data and last_update are at every moment those of
\* the last poll in which get_feed returned a feed; a poll in which
\* get_feed fails (fetch error or undecodable payload) returns without
\* changing either; and every frame is rendered from the lists the display
\* loop read, which are those of the last such poll.
C14_FailedPollKeepsSnapshot == [][C14_Step]_vars

\* A poll at time 1 installed arrivals, the update thread's poll at time 6
\* has returned without a feed (last_update is still 1), and the display
\* loop has read the arrivals of time 1 for its next frame.
C14_Witness ==
    /\ now = 1 + RETRY_DELAY
    /\ update_pc = "sleep"
    /\ last_update = 1
    /\ train_data["northbound"] # << >>
    /\ main_pc = "render"
    /\ snapshot = train_data

SortedByArrival(list) ==
    \A i, j \in DOMAIN list :
        i < j => list[i].arrival_time <= list[j].arrival_time

\* C15 (SpecApp), as claimed: the lists the display loop has read for a
\* frame are the lists of one poll, each sorted by arrival time and of at
\* most TOP_N trains.
C15_RendersSortedBoundedLists ==
    main_pc = "render" =>
        /\ \E f \in AppFeeds : snapshot = parse_feed(f, STOP_ID, route_ids)
        /\ \A d \in DOMAIN snapshot :
              /\ SortedByArrival(snapshot[d])
              /\ Len(snapshot[d]) <= TOP_N

\* C18 (SpecApp), as claimed: once shutdown has completed, the last
\* operation on the pixel sink is the clear.
C18_ClearIsLastSinkOperation ==
    main_pc = "exited" => sink_last = "clear"

C18_Step ==
    /\ (main_pc = "exited" \/ (~running /\ main_pc # "created")) =>
          /\ frame_count' = frame_count
          /\ sink_last' = sink_last
          /\ sink_image' = sink_image
    /\ (main_pc' = "exited" /\ matrix') => (sink_last' = "clear" /\ ~running')
    /\ (main_pc' = "exited" /\ ~matrix') => (sink_last' = sink_last /\ ~running')

\* C18 (SpecApp), amended: shutdown sets running to false and no render is
\* issued and no frame committed from then on; with an LED matrix the clear
\* is the last operation on the pixel sink, in test mode (no matrix) no
\* clear is issued and the sink stays as the last frame left it.
C18_ClearOnMatrixAfterShutdown == [][C18_Step]_vars

\* With a matrix attached a frame was committed, then the program was
\* interrupted and shut down: the sink was cleared.
C18_Witness ==
    /\ main_pc = "exited"
    /\ matrix
    /\ ~running
    /\ frame_count = 1
    /\ render_fault = "none"
    /\ sink_last = "clear"

\* C19 (SpecAppLive): while the application runs, an error caught in an
\* iteration of the display loop or of the poll loop leaves the display
\* loop running: a poll-loop error does not move the main thread, which
\* goes on to the next call of render_frame unless the operator interrupts
\* the program, and the step after a caught display error stays in the
\* loop.
C19_RenderLoopSurvivesFaults ==
    /\ (running /\ (main_pc = "caught" \/ update_pc = "caught"))
           ~> (main_pc \in {"render", "interrupted"})
    /\ [][main_pc = "caught" => main_pc' \in {"caught", "loop", "interrupted"}]_vars
    /\ [][(update_pc # "caught" /\ update_pc' = "caught") => main_pc' = main_pc]_vars

\* The poll loop has caught an error and slept 5 seconds, the display loop
\* has caught one too, and the display loop is again at its call of
\* render_frame after a committed frame.
C19_Witness ==
    /\ now = 1 + RETRY_DELAY
    /\ running
    /\ main_pc = "render"
    /\ frame_count = 1
    /\ sink_last = "frame"

\* C20 (SpecApp), as claimed: while the application runs, the thread of the
\* display loop is never waiting for get_feed: whenever a fetch is in
\* flight, the main thread is in the display loop (or was interrupted).
C20_RenderNeverWaitsForFetch ==
    \A t \in Threads :
        (running /\ fetch_pc[t] = "get_feed") =>
            main_pc \in {"loop", "render", "caught", "interrupted"}

\* C29 (SpecApp), as claimed: at most one feed poll is in flight at any
\* time: at most one thread is inside fetch_train_data, between sending its
\* request and stamping its result, so the results are assigned to the
\* shared mapping in the order the polls started.
C29_OnePollInFlight ==
    Cardinality({t \in Threads : fetch_pc[t] # "idle"}) <= 1

C24_Step ==
    /\ main_pc = "created" => current_frame = "northbound"
    /\ current_frame' \in {"northbound", "southbound"}
    /\ frame_count' # frame_count => frame_direction' = current_frame'
    /\ current_frame' # current_frame =>
          /\ current_frame = "northbound" => current_frame' = "southbound"
          /\ current_frame = "southbound" => current_frame' = "northbound"
          /\ wall_clock - last_frame_switch > FRAME_DURATION * DISPLAY_FPS
          /\ last_frame_switch' = wall_clock
    /\ last_frame_switch' # last_frame_switch =>
          \/ current_frame' # current_frame
          \/ main_pc = "created"

\* C24 (SpecFramesLive): the display loop starts with northbound; the bound
\* it shows, the one it passes to render_frame, is always northbound or
\* southbound; it changes only to the other bound, and only in an iteration
\* that reads a time more than FRAME_DURATION seconds after the previous
\* change (after the entry of the loop, for the first change), which
\* becomes the time of the change; and while the loop runs, each bound
\* shown is followed by the other one, as long as the time is left for it.
C24_BoundsAlternate ==
    /\ [][C24_Step]_vars
    /\ \A b \in {"northbound", "southbound"} :
          ( /\ main_pc = "loop"
            /\ running
            /\ current_frame = b
            /\ last_frame_switch + FRAME_DURATION * DISPLAY_FPS + ERROR_SLEEP < MaxClock )
          ~> (current_frame = other_frame(b) \/ main_pc # "loop")

\* The loop has shown northbound, then southbound, and shows northbound
\* again: the second switch came 151 frame periods after the first, which
\* came 153 frame periods after the entry of the loop.
C24_Witness ==
    /\ main_pc = "loop"
    /\ current_frame = "northbound"
    /\ frame_direction = "northbound"
    /\ last_frame_switch = 7 + 153 + 151
    /\ wall_clock > last_frame_switch

====
